---------------------------- MODULE Spec2Model ----------------------------
(***************************************************************************)
(* A model of scripts/resolve-musl-runtime.py: the text normalizer, the    *)
(* anchor extractor, the resolver and the command-line driver.             *)
(*                                                                         *)
(* Text is a sequence of characters, and a character is a TLA+ string:     *)
(*   - a printable ASCII character other than the backtick (code points    *)
(*     32..95 and 97..126) is the one-character string of itself: "a",     *)
(*     "<", " ", "\"", "\\";                                               *)
(*   - the tab, the line feed, the form feed and the carriage return are   *)
(*     "\t", "\n", "\f" and "\r";                                          *)
(*   - every other character is the token "U+" followed by its code point  *)
(*     in capital hexadecimal digits, four at least: "U+0000", "U+000B",   *)
(*     "U+0060" (the backtick), "U+007F", "U+00E9", "U+2003", "U+1D504".   *)
(* Chars("abc") = <<"a", "b", "c">>.  None stands for Python's None and    *)
(* for an unset environment variable; it is no text, and differs from the  *)
(* empty text <<>>.                                                        *)
(***************************************************************************)
EXTENDS Integers, Sequences, FiniteSets, TLC

Chars(str) == [i \in 1..Len(str) |-> SubSeq(str, i, i)]

None == <<"None">>

\* In the place of a text: making the text raised ValueError.  It is no text.
Raised == <<"ValueError">>

\* a + b, when making both texts raised nothing
concat(a, b) == IF a = Raised \/ b = Raised THEN Raised ELSE a \o b

\* s[i:], with i counted from 1
From(s, i) == SubSeq(s, i, Len(s))

\* the least and the greatest member of a set of positions, 0 for the empty set
Least(S) == IF S = {} THEN 0 ELSE CHOOSE k \in S : \A o \in S : k <= o

Greatest(S) == 0 - Least({0 - k : k \in S})

(***************************************************************************)
(* Characters and code points: ord, chr, int                               *)
(***************************************************************************)
UpperCase == Chars("ABCDEFGHIJKLMNOPQRSTUVWXYZ")

LowerCase == Chars("abcdefghijklmnopqrstuvwxyz")

Digits == Chars("0123456789")

HexDigits == Chars("0123456789ABCDEF")

ascii_uppercase == {UpperCase[i] : i \in 1..26}

ascii_lowercase == {LowerCase[i] : i \in 1..26}

digits == {Digits[i] : i \in 1..10}

hexdigits == digits \cup {"a", "b", "c", "d", "e", "f", "A", "B", "C", "D", "E", "F"}

\* c.isascii() and c.isupper(), ... and c.isalpha(), ... and c.isdigit()
IsUpper(c) == c \in ascii_uppercase

IsAlpha(c) == c \in ascii_uppercase \/ c \in ascii_lowercase

IsDigit(c) == c \in digits

IsHexDigit(c) == c \in hexdigits

\* ASCII, code points 32..95 and 97..126
AsciiLow ==
    Chars(" !") \o <<"\"">> \o Chars("#$%&'()*+,-./0123456789:;<=>?@")
    \o UpperCase \o <<"[", "\\", "]">> \o Chars("^_")

AsciiHigh == LowerCase \o Chars("{|}~")

\* the value of each digit of a numeral, as int() takes it
digit_value ==
    [c \in hexdigits |->
        IF c \in digits THEN (CHOOSE i \in 1..10 : Digits[i] = c) - 1
        ELSE IF c \in ascii_uppercase THEN (CHOOSE i \in 11..16 : HexDigits[i] = c) - 1
        ELSE (CHOOSE i \in 1..6 : LowerCase[i] = c) + 9]

\* a number no greater than 0x110000: the code points end at 0x10FFFF, and
\* what is done with a greater number does not depend on which one it is
Saturated(num) == IF num > 1114111 THEN 1114112 ELSE num

\* sys.int_info.default_max_str_digits: the longest decimal numeral, leading
\* zeros counted, that int() converts
max_str_digits == 4300

\* The number that the digits s[i..j] write in the base, s[i] being the first
\* digit other than 0; i = 0 when there is none.  A numeral of more than 7
\* digits is no less than base^7, which is greater than 0x10FFFF.
RECURSIVE Numeral(_, _, _, _)
Numeral(s, i, j, base) ==
    IF i = 0 \/ j < i THEN 0
    ELSE IF j - i + 1 > 7 THEN Saturated(base ^ 7)
    ELSE Saturated(Numeral(s, i, j - 1, base) * base + digit_value[s[j]])

\* int(s[i..j], base), for a numeral of one of the bases 10 and 16; -1 when
\* int() raises ValueError: a decimal numeral of more than max_str_digits
\* digits.  A hexadecimal numeral has no such limit.
IntValue(s, i, j, base) ==
    IF base = 10 /\ j - i + 1 > max_str_digits THEN -1
    ELSE Numeral(s, Least({k \in i..j : s[k] # "0"}), j, base)

\* the code points of the characters that are written as themselves
ascii_ord ==
    [c \in {AsciiLow[i] : i \in 1..64} |-> 31 + CHOOSE i \in 1..64 : AsciiLow[i] = c]
    @@ [c \in {AsciiHigh[i] : i \in 1..30} |-> 96 + CHOOSE i \in 1..30 : AsciiHigh[i] = c]
    @@ ("\t" :> 9) @@ ("\n" :> 10) @@ ("\f" :> 12) @@ ("\r" :> 13)

\* ord(c)
ord(c) ==
    IF Len(c) = 1 THEN ascii_ord[c] ELSE IntValue(Chars(c), 3, Len(c), 16)

\* the numeral of num in capital hexadecimal digits, w of them at least
RECURSIVE hex(_, _)
hex(num, w) ==
    IF num = 0 /\ w <= 0 THEN ""
    ELSE hex(num \div 16, w - 1) \o HexDigits[(num % 16) + 1]

\* chr(num) for num in 0..0x10FFFF, a text of one character
chr(num) ==
    IF num \in 32..95 THEN <<AsciiLow[num - 31]>>
    ELSE IF num \in 97..126 THEN <<AsciiHigh[num - 96]>>
    ELSE IF num = 9 THEN <<"\t">>
    ELSE IF num = 10 THEN <<"\n">>
    ELSE IF num = 12 THEN <<"\f">>
    ELSE IF num = 13 THEN <<"\r">>
    ELSE <<"U+" \o hex(num, 4)>>

(***************************************************************************)
(* str.lower, the regular expressions' \s, str.strip                       *)
(***************************************************************************)
\* The one-character lower-case mappings of the Unicode database (14.0.0):
\* <<first, last, step, delta>> maps first, first + step, ..., last to the
\* code point delta above.
lower_ranges ==
    {<<65, 90, 1, 32>>, <<192, 214, 1, 32>>, <<216, 222, 1, 32>>,
     <<256, 302, 2, 1>>, <<306, 310, 2, 1>>, <<313, 327, 2, 1>>,
     <<330, 374, 2, 1>>, <<376, 376, 1, -121>>, <<377, 381, 2, 1>>,
     <<385, 385, 1, 210>>, <<386, 388, 2, 1>>, <<390, 390, 1, 206>>,
     <<391, 391, 1, 1>>, <<393, 394, 1, 205>>, <<395, 395, 1, 1>>,
     <<398, 398, 1, 79>>, <<399, 399, 1, 202>>, <<400, 400, 1, 203>>,
     <<401, 401, 1, 1>>, <<403, 403, 1, 205>>, <<404, 404, 1, 207>>,
     <<406, 406, 1, 211>>, <<407, 407, 1, 209>>, <<408, 408, 1, 1>>,
     <<412, 412, 1, 211>>, <<413, 413, 1, 213>>, <<415, 415, 1, 214>>,
     <<416, 420, 2, 1>>, <<422, 422, 1, 218>>, <<423, 423, 1, 1>>,
     <<425, 425, 1, 218>>, <<428, 428, 1, 1>>, <<430, 430, 1, 218>>,
     <<431, 431, 1, 1>>, <<433, 434, 1, 217>>, <<435, 437, 2, 1>>,
     <<439, 439, 1, 219>>, <<440, 440, 1, 1>>, <<444, 444, 1, 1>>,
     <<452, 452, 1, 2>>, <<453, 453, 1, 1>>, <<455, 455, 1, 2>>,
     <<456, 456, 1, 1>>, <<458, 458, 1, 2>>, <<459, 475, 2, 1>>,
     <<478, 494, 2, 1>>, <<497, 497, 1, 2>>, <<498, 500, 2, 1>>,
     <<502, 502, 1, -97>>, <<503, 503, 1, -56>>, <<504, 542, 2, 1>>,
     <<544, 544, 1, -130>>, <<546, 562, 2, 1>>, <<570, 570, 1, 10795>>,
     <<571, 571, 1, 1>>, <<573, 573, 1, -163>>, <<574, 574, 1, 10792>>,
     <<577, 577, 1, 1>>, <<579, 579, 1, -195>>, <<580, 580, 1, 69>>,
     <<581, 581, 1, 71>>, <<582, 590, 2, 1>>, <<880, 882, 2, 1>>,
     <<886, 886, 1, 1>>, <<895, 895, 1, 116>>, <<902, 902, 1, 38>>,
     <<904, 906, 1, 37>>, <<908, 908, 1, 64>>, <<910, 911, 1, 63>>,
     <<913, 929, 1, 32>>, <<931, 939, 1, 32>>, <<975, 975, 1, 8>>,
     <<984, 1006, 2, 1>>, <<1012, 1012, 1, -60>>, <<1015, 1015, 1, 1>>,
     <<1017, 1017, 1, -7>>, <<1018, 1018, 1, 1>>, <<1021, 1023, 1, -130>>,
     <<1024, 1039, 1, 80>>, <<1040, 1071, 1, 32>>, <<1120, 1152, 2, 1>>,
     <<1162, 1214, 2, 1>>, <<1216, 1216, 1, 15>>, <<1217, 1229, 2, 1>>,
     <<1232, 1326, 2, 1>>, <<1329, 1366, 1, 48>>, <<4256, 4293, 1, 7264>>,
     <<4295, 4295, 1, 7264>>, <<4301, 4301, 1, 7264>>,
     <<5024, 5103, 1, 38864>>, <<5104, 5109, 1, 8>>, <<7312, 7354, 1, -3008>>,
     <<7357, 7359, 1, -3008>>, <<7680, 7828, 2, 1>>, <<7838, 7838, 1, -7615>>,
     <<7840, 7934, 2, 1>>, <<7944, 7951, 1, -8>>, <<7960, 7965, 1, -8>>,
     <<7976, 7983, 1, -8>>, <<7992, 7999, 1, -8>>, <<8008, 8013, 1, -8>>,
     <<8025, 8031, 2, -8>>, <<8040, 8047, 1, -8>>, <<8072, 8079, 1, -8>>,
     <<8088, 8095, 1, -8>>, <<8104, 8111, 1, -8>>, <<8120, 8121, 1, -8>>,
     <<8122, 8123, 1, -74>>, <<8124, 8124, 1, -9>>, <<8136, 8139, 1, -86>>,
     <<8140, 8140, 1, -9>>, <<8152, 8153, 1, -8>>, <<8154, 8155, 1, -100>>,
     <<8168, 8169, 1, -8>>, <<8170, 8171, 1, -112>>, <<8172, 8172, 1, -7>>,
     <<8184, 8185, 1, -128>>, <<8186, 8187, 1, -126>>, <<8188, 8188, 1, -9>>,
     <<8486, 8486, 1, -7517>>, <<8490, 8490, 1, -8383>>,
     <<8491, 8491, 1, -8262>>, <<8498, 8498, 1, 28>>, <<8544, 8559, 1, 16>>,
     <<8579, 8579, 1, 1>>, <<9398, 9423, 1, 26>>, <<11264, 11311, 1, 48>>,
     <<11360, 11360, 1, 1>>, <<11362, 11362, 1, -10743>>,
     <<11363, 11363, 1, -3814>>, <<11364, 11364, 1, -10727>>,
     <<11367, 11371, 2, 1>>, <<11373, 11373, 1, -10780>>,
     <<11374, 11374, 1, -10749>>, <<11375, 11375, 1, -10783>>,
     <<11376, 11376, 1, -10782>>, <<11378, 11378, 1, 1>>,
     <<11381, 11381, 1, 1>>, <<11390, 11391, 1, -10815>>,
     <<11392, 11490, 2, 1>>, <<11499, 11501, 2, 1>>, <<11506, 11506, 1, 1>>,
     <<42560, 42604, 2, 1>>, <<42624, 42650, 2, 1>>, <<42786, 42798, 2, 1>>,
     <<42802, 42862, 2, 1>>, <<42873, 42875, 2, 1>>,
     <<42877, 42877, 1, -35332>>, <<42878, 42886, 2, 1>>,
     <<42891, 42891, 1, 1>>, <<42893, 42893, 1, -42280>>,
     <<42896, 42898, 2, 1>>, <<42902, 42920, 2, 1>>,
     <<42922, 42922, 1, -42308>>, <<42923, 42923, 1, -42319>>,
     <<42924, 42924, 1, -42315>>, <<42925, 42925, 1, -42305>>,
     <<42926, 42926, 1, -42308>>, <<42928, 42928, 1, -42258>>,
     <<42929, 42929, 1, -42282>>, <<42930, 42930, 1, -42261>>,
     <<42931, 42931, 1, 928>>, <<42932, 42946, 2, 1>>,
     <<42948, 42948, 1, -48>>, <<42949, 42949, 1, -42307>>,
     <<42950, 42950, 1, -35384>>, <<42951, 42953, 2, 1>>,
     <<42960, 42960, 1, 1>>, <<42966, 42968, 2, 1>>, <<42997, 42997, 1, 1>>,
     <<65313, 65338, 1, 32>>, <<66560, 66599, 1, 40>>, <<66736, 66771, 1, 40>>,
     <<66928, 66964, 2, 39>>, <<66929, 66937, 2, 39>>, <<66941, 66953, 2, 39>>,
     <<66957, 66961, 2, 39>>, <<66965, 66965, 1, 39>>, <<68736, 68786, 1, 64>>,
     <<71840, 71871, 1, 32>>, <<93760, 93791, 1, 32>>,
     <<125184, 125217, 1, 34>>}

\* The ranges <<first, last>> of the cased characters.
cased_ranges ==
    {<<65, 90>>, <<97, 122>>, <<170, 170>>, <<181, 181>>, <<186, 186>>,
     <<192, 214>>, <<216, 246>>, <<248, 442>>, <<444, 447>>, <<452, 659>>,
     <<661, 696>>, <<704, 705>>, <<736, 740>>, <<837, 837>>, <<880, 883>>,
     <<886, 887>>, <<890, 893>>, <<895, 895>>, <<902, 902>>, <<904, 906>>,
     <<908, 908>>, <<910, 929>>, <<931, 1013>>, <<1015, 1153>>, <<1162, 1327>>,
     <<1329, 1366>>, <<1376, 1416>>, <<4256, 4293>>, <<4295, 4295>>,
     <<4301, 4301>>, <<4304, 4346>>, <<4349, 4351>>, <<5024, 5109>>,
     <<5112, 5117>>, <<7296, 7304>>, <<7312, 7354>>, <<7357, 7359>>,
     <<7424, 7615>>, <<7680, 7957>>, <<7960, 7965>>, <<7968, 8005>>,
     <<8008, 8013>>, <<8016, 8023>>, <<8025, 8025>>, <<8027, 8027>>,
     <<8029, 8029>>, <<8031, 8061>>, <<8064, 8116>>, <<8118, 8124>>,
     <<8126, 8126>>, <<8130, 8132>>, <<8134, 8140>>, <<8144, 8147>>,
     <<8150, 8155>>, <<8160, 8172>>, <<8178, 8180>>, <<8182, 8188>>,
     <<8305, 8305>>, <<8319, 8319>>, <<8336, 8348>>, <<8450, 8450>>,
     <<8455, 8455>>, <<8458, 8467>>, <<8469, 8469>>, <<8473, 8477>>,
     <<8484, 8484>>, <<8486, 8486>>, <<8488, 8488>>, <<8490, 8493>>,
     <<8495, 8500>>, <<8505, 8505>>, <<8508, 8511>>, <<8517, 8521>>,
     <<8526, 8526>>, <<8544, 8575>>, <<8579, 8580>>, <<9398, 9449>>,
     <<11264, 11492>>, <<11499, 11502>>, <<11506, 11507>>, <<11520, 11557>>,
     <<11559, 11559>>, <<11565, 11565>>, <<42560, 42605>>, <<42624, 42653>>,
     <<42786, 42887>>, <<42891, 42894>>, <<42896, 42954>>, <<42960, 42961>>,
     <<42963, 42963>>, <<42965, 42969>>, <<42997, 42998>>, <<43000, 43002>>,
     <<43824, 43866>>, <<43868, 43880>>, <<43888, 43967>>, <<64256, 64262>>,
     <<64275, 64279>>, <<65313, 65338>>, <<65345, 65370>>, <<66560, 66639>>,
     <<66736, 66771>>, <<66776, 66811>>, <<66928, 66938>>, <<66940, 66954>>,
     <<66956, 66962>>, <<66964, 66965>>, <<66967, 66977>>, <<66979, 66993>>,
     <<66995, 67001>>, <<67003, 67004>>, <<67456, 67456>>, <<67459, 67461>>,
     <<67463, 67504>>, <<67506, 67514>>, <<68736, 68786>>, <<68800, 68850>>,
     <<71840, 71903>>, <<93760, 93823>>, <<119808, 119892>>,
     <<119894, 119964>>, <<119966, 119967>>, <<119970, 119970>>,
     <<119973, 119974>>, <<119977, 119980>>, <<119982, 119993>>,
     <<119995, 119995>>, <<119997, 120003>>, <<120005, 120069>>,
     <<120071, 120074>>, <<120077, 120084>>, <<120086, 120092>>,
     <<120094, 120121>>, <<120123, 120126>>, <<120128, 120132>>,
     <<120134, 120134>>, <<120138, 120144>>, <<120146, 120485>>,
     <<120488, 120512>>, <<120514, 120538>>, <<120540, 120570>>,
     <<120572, 120596>>, <<120598, 120628>>, <<120630, 120654>>,
     <<120656, 120686>>, <<120688, 120712>>, <<120714, 120744>>,
     <<120746, 120770>>, <<120772, 120779>>, <<122624, 122633>>,
     <<122635, 122654>>, <<125184, 125251>>, <<127280, 127305>>,
     <<127312, 127337>>, <<127344, 127369>>}

\* The ranges <<first, last>> of the case-ignorable characters.
case_ignorable_ranges ==
    {<<39, 39>>, <<46, 46>>, <<58, 58>>, <<94, 94>>, <<96, 96>>, <<168, 168>>,
     <<173, 173>>, <<175, 175>>, <<180, 180>>, <<183, 184>>, <<688, 879>>,
     <<884, 885>>, <<890, 890>>, <<900, 901>>, <<903, 903>>, <<1155, 1161>>,
     <<1369, 1369>>, <<1375, 1375>>, <<1425, 1469>>, <<1471, 1471>>,
     <<1473, 1474>>, <<1476, 1477>>, <<1479, 1479>>, <<1524, 1524>>,
     <<1536, 1541>>, <<1552, 1562>>, <<1564, 1564>>, <<1600, 1600>>,
     <<1611, 1631>>, <<1648, 1648>>, <<1750, 1757>>, <<1759, 1768>>,
     <<1770, 1773>>, <<1807, 1807>>, <<1809, 1809>>, <<1840, 1866>>,
     <<1958, 1968>>, <<2027, 2037>>, <<2042, 2042>>, <<2045, 2045>>,
     <<2070, 2093>>, <<2137, 2139>>, <<2184, 2184>>, <<2192, 2193>>,
     <<2200, 2207>>, <<2249, 2306>>, <<2362, 2362>>, <<2364, 2364>>,
     <<2369, 2376>>, <<2381, 2381>>, <<2385, 2391>>, <<2402, 2403>>,
     <<2417, 2417>>, <<2433, 2433>>, <<2492, 2492>>, <<2497, 2500>>,
     <<2509, 2509>>, <<2530, 2531>>, <<2558, 2558>>, <<2561, 2562>>,
     <<2620, 2620>>, <<2625, 2626>>, <<2631, 2632>>, <<2635, 2637>>,
     <<2641, 2641>>, <<2672, 2673>>, <<2677, 2677>>, <<2689, 2690>>,
     <<2748, 2748>>, <<2753, 2757>>, <<2759, 2760>>, <<2765, 2765>>,
     <<2786, 2787>>, <<2810, 2815>>, <<2817, 2817>>, <<2876, 2876>>,
     <<2879, 2879>>, <<2881, 2884>>, <<2893, 2893>>, <<2901, 2902>>,
     <<2914, 2915>>, <<2946, 2946>>, <<3008, 3008>>, <<3021, 3021>>,
     <<3072, 3072>>, <<3076, 3076>>, <<3132, 3132>>, <<3134, 3136>>,
     <<3142, 3144>>, <<3146, 3149>>, <<3157, 3158>>, <<3170, 3171>>,
     <<3201, 3201>>, <<3260, 3260>>, <<3263, 3263>>, <<3270, 3270>>,
     <<3276, 3277>>, <<3298, 3299>>, <<3328, 3329>>, <<3387, 3388>>,
     <<3393, 3396>>, <<3405, 3405>>, <<3426, 3427>>, <<3457, 3457>>,
     <<3530, 3530>>, <<3538, 3540>>, <<3542, 3542>>, <<3633, 3633>>,
     <<3636, 3642>>, <<3654, 3662>>, <<3761, 3761>>, <<3764, 3772>>,
     <<3782, 3782>>, <<3784, 3789>>, <<3864, 3865>>, <<3893, 3893>>,
     <<3895, 3895>>, <<3897, 3897>>, <<3953, 3966>>, <<3968, 3972>>,
     <<3974, 3975>>, <<3981, 3991>>, <<3993, 4028>>, <<4038, 4038>>,
     <<4141, 4144>>, <<4146, 4151>>, <<4153, 4154>>, <<4157, 4158>>,
     <<4184, 4185>>, <<4190, 4192>>, <<4209, 4212>>, <<4226, 4226>>,
     <<4229, 4230>>, <<4237, 4237>>, <<4253, 4253>>, <<4348, 4348>>,
     <<4957, 4959>>, <<5906, 5908>>, <<5938, 5939>>, <<5970, 5971>>,
     <<6002, 6003>>, <<6068, 6069>>, <<6071, 6077>>, <<6086, 6086>>,
     <<6089, 6099>>, <<6103, 6103>>, <<6109, 6109>>, <<6155, 6159>>,
     <<6211, 6211>>, <<6277, 6278>>, <<6313, 6313>>, <<6432, 6434>>,
     <<6439, 6440>>, <<6450, 6450>>, <<6457, 6459>>, <<6679, 6680>>,
     <<6683, 6683>>, <<6742, 6742>>, <<6744, 6750>>, <<6752, 6752>>,
     <<6754, 6754>>, <<6757, 6764>>, <<6771, 6780>>, <<6783, 6783>>,
     <<6823, 6823>>, <<6832, 6862>>, <<6912, 6915>>, <<6964, 6964>>,
     <<6966, 6970>>, <<6972, 6972>>, <<6978, 6978>>, <<7019, 7027>>,
     <<7040, 7041>>, <<7074, 7077>>, <<7080, 7081>>, <<7083, 7085>>,
     <<7142, 7142>>, <<7144, 7145>>, <<7149, 7149>>, <<7151, 7153>>,
     <<7212, 7219>>, <<7222, 7223>>, <<7288, 7293>>, <<7376, 7378>>,
     <<7380, 7392>>, <<7394, 7400>>, <<7405, 7405>>, <<7412, 7412>>,
     <<7416, 7417>>, <<7468, 7530>>, <<7544, 7544>>, <<7579, 7679>>,
     <<8125, 8125>>, <<8127, 8129>>, <<8141, 8143>>, <<8157, 8159>>,
     <<8173, 8175>>, <<8189, 8190>>, <<8203, 8207>>, <<8216, 8217>>,
     <<8228, 8228>>, <<8231, 8231>>, <<8234, 8238>>, <<8288, 8292>>,
     <<8294, 8303>>, <<8305, 8305>>, <<8319, 8319>>, <<8336, 8348>>,
     <<8400, 8432>>, <<11388, 11389>>, <<11503, 11505>>, <<11631, 11631>>,
     <<11647, 11647>>, <<11744, 11775>>, <<11823, 11823>>, <<12293, 12293>>,
     <<12330, 12333>>, <<12337, 12341>>, <<12347, 12347>>, <<12441, 12446>>,
     <<12540, 12542>>, <<40981, 40981>>, <<42232, 42237>>, <<42508, 42508>>,
     <<42607, 42610>>, <<42612, 42621>>, <<42623, 42623>>, <<42652, 42655>>,
     <<42736, 42737>>, <<42752, 42785>>, <<42864, 42864>>, <<42888, 42890>>,
     <<42994, 42996>>, <<43000, 43001>>, <<43010, 43010>>, <<43014, 43014>>,
     <<43019, 43019>>, <<43045, 43046>>, <<43052, 43052>>, <<43204, 43205>>,
     <<43232, 43249>>, <<43263, 43263>>, <<43302, 43309>>, <<43335, 43345>>,
     <<43392, 43394>>, <<43443, 43443>>, <<43446, 43449>>, <<43452, 43453>>,
     <<43471, 43471>>, <<43493, 43494>>, <<43561, 43566>>, <<43569, 43570>>,
     <<43573, 43574>>, <<43587, 43587>>, <<43596, 43596>>, <<43632, 43632>>,
     <<43644, 43644>>, <<43696, 43696>>, <<43698, 43700>>, <<43703, 43704>>,
     <<43710, 43711>>, <<43713, 43713>>, <<43741, 43741>>, <<43756, 43757>>,
     <<43763, 43764>>, <<43766, 43766>>, <<43867, 43871>>, <<43881, 43883>>,
     <<44005, 44005>>, <<44008, 44008>>, <<44013, 44013>>, <<64286, 64286>>,
     <<64434, 64450>>, <<65024, 65039>>, <<65043, 65043>>, <<65056, 65071>>,
     <<65106, 65106>>, <<65109, 65109>>, <<65279, 65279>>, <<65287, 65287>>,
     <<65294, 65294>>, <<65306, 65306>>, <<65342, 65342>>, <<65344, 65344>>,
     <<65392, 65392>>, <<65438, 65439>>, <<65507, 65507>>, <<65529, 65531>>,
     <<66045, 66045>>, <<66272, 66272>>, <<66422, 66426>>, <<67456, 67461>>,
     <<67463, 67504>>, <<67506, 67514>>, <<68097, 68099>>, <<68101, 68102>>,
     <<68108, 68111>>, <<68152, 68154>>, <<68159, 68159>>, <<68325, 68326>>,
     <<68900, 68903>>, <<69291, 69292>>, <<69446, 69456>>, <<69506, 69509>>,
     <<69633, 69633>>, <<69688, 69702>>, <<69744, 69744>>, <<69747, 69748>>,
     <<69759, 69761>>, <<69811, 69814>>, <<69817, 69818>>, <<69821, 69821>>,
     <<69826, 69826>>, <<69837, 69837>>, <<69888, 69890>>, <<69927, 69931>>,
     <<69933, 69940>>, <<70003, 70003>>, <<70016, 70017>>, <<70070, 70078>>,
     <<70089, 70092>>, <<70095, 70095>>, <<70191, 70193>>, <<70196, 70196>>,
     <<70198, 70199>>, <<70206, 70206>>, <<70367, 70367>>, <<70371, 70378>>,
     <<70400, 70401>>, <<70459, 70460>>, <<70464, 70464>>, <<70502, 70508>>,
     <<70512, 70516>>, <<70712, 70719>>, <<70722, 70724>>, <<70726, 70726>>,
     <<70750, 70750>>, <<70835, 70840>>, <<70842, 70842>>, <<70847, 70848>>,
     <<70850, 70851>>, <<71090, 71093>>, <<71100, 71101>>, <<71103, 71104>>,
     <<71132, 71133>>, <<71219, 71226>>, <<71229, 71229>>, <<71231, 71232>>,
     <<71339, 71339>>, <<71341, 71341>>, <<71344, 71349>>, <<71351, 71351>>,
     <<71453, 71455>>, <<71458, 71461>>, <<71463, 71467>>, <<71727, 71735>>,
     <<71737, 71738>>, <<71995, 71996>>, <<71998, 71998>>, <<72003, 72003>>,
     <<72148, 72151>>, <<72154, 72155>>, <<72160, 72160>>, <<72193, 72202>>,
     <<72243, 72248>>, <<72251, 72254>>, <<72263, 72263>>, <<72273, 72278>>,
     <<72281, 72283>>, <<72330, 72342>>, <<72344, 72345>>, <<72752, 72758>>,
     <<72760, 72765>>, <<72767, 72767>>, <<72850, 72871>>, <<72874, 72880>>,
     <<72882, 72883>>, <<72885, 72886>>, <<73009, 73014>>, <<73018, 73018>>,
     <<73020, 73021>>, <<73023, 73029>>, <<73031, 73031>>, <<73104, 73105>>,
     <<73109, 73109>>, <<73111, 73111>>, <<73459, 73460>>, <<78896, 78904>>,
     <<92912, 92916>>, <<92976, 92982>>, <<92992, 92995>>, <<94031, 94031>>,
     <<94095, 94111>>, <<94176, 94177>>, <<94179, 94180>>, <<110576, 110579>>,
     <<110581, 110587>>, <<110589, 110590>>, <<113821, 113822>>,
     <<113824, 113827>>, <<118528, 118573>>, <<118576, 118598>>,
     <<119143, 119145>>, <<119155, 119170>>, <<119173, 119179>>,
     <<119210, 119213>>, <<119362, 119364>>, <<121344, 121398>>,
     <<121403, 121452>>, <<121461, 121461>>, <<121476, 121476>>,
     <<121499, 121503>>, <<121505, 121519>>, <<122880, 122886>>,
     <<122888, 122904>>, <<122907, 122913>>, <<122915, 122916>>,
     <<122918, 122922>>, <<123184, 123197>>, <<123566, 123566>>,
     <<123628, 123631>>, <<125136, 125142>>, <<125252, 125259>>,
     <<127995, 127999>>, <<917505, 917505>>, <<917536, 917631>>,
     <<917760, 917999>>}

InRanges(num, ranges) == \E r \in ranges : r[1] <= num /\ num <= r[2]

\* _PyUnicode_IsCased
IsCased(c) == InRanges(ord(c), cased_ranges)

\* _PyUnicode_IsCaseIgnorable
IsCaseIgnorable(c) == InRanges(ord(c), case_ignorable_ranges)

\* the lower-case letter of each ASCII capital
lower_table ==
    [c \in ascii_uppercase |-> LowerCase[CHOOSE i \in 1..26 : UpperCase[i] = c]]

\* the mappings of lower_ranges that apply to the code point num
lower_mappings(num) ==
    {r \in lower_ranges : r[1] <= num /\ num <= r[2] /\ (num - r[1]) % r[3] = 0}

mapped_lower(c, num, mappings) ==
    IF mappings = {} THEN <<c>>
    ELSE chr(num + (CHOOSE r \in mappings : TRUE)[4])

\* str.lower() of the one character c, a text.  One character has a lower
\* case of two characters: the capital I with a dot above, U+0130, becomes
\* "i" and the combining dot above, U+0307.
lower_char(c) ==
    IF c \in ascii_uppercase THEN <<lower_table[c]>>
    ELSE IF Len(c) = 1 THEN <<c>>
    ELSE IF c = "U+0130" THEN <<"i", "U+0307">>
    ELSE mapped_lower(c, ord(c), lower_mappings(ord(c)))

\* The capital sigma s[i] becomes the final sigma U+03C2 when a cased
\* character precedes it and none follows it, case-ignorable characters
\* skipped on both sides; the sigma U+03C3 otherwise.
handle_capital_sigma(s, i) ==
    LET before == Greatest({j \in 1..(i - 1) : ~IsCaseIgnorable(s[j])})
        after == Least({j \in (i + 1)..Len(s) : ~IsCaseIgnorable(s[j])})
    IN  IF /\ before > 0
           /\ IsCased(s[before])
           /\ (after = 0 \/ ~IsCased(s[after]))
        THEN "U+03C2" ELSE "U+03C3"

\* the lower case of the character s[i] within s, a text
lower_at(s, i) ==
    IF s[i] = "U+03A3" THEN <<handle_capital_sigma(s, i)>>
    ELSE lower_char(s[i])

\* str.lower() of s from position i on: the lower case of each character,
\* put together around each U+0130, whose lower case has two characters
RECURSIVE lower_from(_, _)
lower_from(s, i) ==
    LET m == Least({k \in i..Len(s) : s[k] = "U+0130"})
    IN  IF m = 0 THEN [k \in 1..(Len(s) - i + 1) |-> lower_at(s, i + k - 1)[1]]
        ELSE [k \in 1..(m - i) |-> lower_at(s, i + k - 1)[1]]
             \o lower_at(s, m) \o lower_from(s, m + 1)

\* str.lower()
lower(s) == lower_from(s, 1)

\* \s of the re module on str, and the characters str.strip() removes
whitespace ==
    {chr(num)[1] :
        num \in (9..13) \cup (28..32) \cup {133, 160, 5760} \cup (8192..8202)
                \cup {8232, 8233, 8239, 8287, 12288}}

IsSpace(c) == c \in whitespace

\* str.find(c, i): the first position >= i holding c, 0 when there is none
find(s, c, i) == Least({k \in i..Len(s) : s[k] = c})

\* whether pat occurs in s at position i
MatchAt(s, pat, i) ==
    /\ i >= 1
    /\ i + Len(pat) - 1 <= Len(s)
    /\ \A k \in 1..Len(pat) : s[i + k - 1] = pat[k]

\* Whether pat (given in lower case) occurs in s at position i under
\* re.IGNORECASE: a character of s matches the one of pat that is its lower
\* case.  (The patterns here hold the letters a, e, f, h and r, which are the
\* lower case of their ASCII capitals and of no other character.)
MatchAtIgnoreCase(s, pat, i) ==
    /\ i >= 1
    /\ i + Len(pat) - 1 <= Len(s)
    /\ \A k \in 1..Len(pat) : lower_char(s[i + k - 1]) = <<pat[k]>>

\* Python's `pat in s`
Contains(s, pat) == \E i \in 1..(Len(s) + 1) : MatchAt(s, pat, i)

(***************************************************************************)
(* html.unescape                                                           *)
(***************************************************************************)
\* html.entities.html5, the 2231 named character references
html5 ==
    (((((((((((Chars("AElig") :> <<"U+00C6">>) @@
    (Chars("AElig;") :> <<"U+00C6">>)) @@ ((Chars("AMP") :> <<"&">>) @@
    (Chars("AMP;") :> <<"&">>))) @@ (((Chars("Aacute") :> <<"U+00C1">>) @@
    (Chars("Aacute;") :> <<"U+00C1">>)) @@
    ((Chars("Abreve;") :> <<"U+0102">>) @@
    (Chars("Acirc") :> <<"U+00C2">>)))) @@
    ((((Chars("Acirc;") :> <<"U+00C2">>) @@
    (Chars("Acy;") :> <<"U+0410">>)) @@ ((Chars("Afr;") :> <<"U+1D504">>) @@
    (Chars("Agrave") :> <<"U+00C0">>))) @@
    (((Chars("Agrave;") :> <<"U+00C0">>) @@
    (Chars("Alpha;") :> <<"U+0391">>)) @@
    ((Chars("Amacr;") :> <<"U+0100">>) @@ ((Chars("And;") :> <<"U+2A53">>) @@
    (Chars("Aogon;") :> <<"U+0104">>)))))) @@
    (((((Chars("Aopf;") :> <<"U+1D538">>) @@
    (Chars("ApplyFunction;") :> <<"U+2061">>)) @@
    ((Chars("Aring") :> <<"U+00C5">>) @@
    (Chars("Aring;") :> <<"U+00C5">>))) @@
    (((Chars("Ascr;") :> <<"U+1D49C">>) @@
    (Chars("Assign;") :> <<"U+2254">>)) @@
    ((Chars("Atilde") :> <<"U+00C3">>) @@
    (Chars("Atilde;") :> <<"U+00C3">>)))) @@
    ((((Chars("Auml") :> <<"U+00C4">>) @@ (Chars("Auml;") :> <<"U+00C4">>)) @@
    ((Chars("Backslash;") :> <<"U+2216">>) @@
    (Chars("Barv;") :> <<"U+2AE7">>))) @@
    (((Chars("Barwed;") :> <<"U+2306">>) @@
    (Chars("Bcy;") :> <<"U+0411">>)) @@
    ((Chars("Because;") :> <<"U+2235">>) @@
    ((Chars("Bernoullis;") :> <<"U+212C">>) @@
    (Chars("Beta;") :> <<"U+0392">>))))))) @@
    ((((((Chars("Bfr;") :> <<"U+1D505">>) @@
    (Chars("Bopf;") :> <<"U+1D539">>)) @@
    ((Chars("Breve;") :> <<"U+02D8">>) @@
    (Chars("Bscr;") :> <<"U+212C">>))) @@
    (((Chars("Bumpeq;") :> <<"U+224E">>) @@
    (Chars("CHcy;") :> <<"U+0427">>)) @@ ((Chars("COPY") :> <<"U+00A9">>) @@
    (Chars("COPY;") :> <<"U+00A9">>)))) @@
    ((((Chars("Cacute;") :> <<"U+0106">>) @@
    (Chars("Cap;") :> <<"U+22D2">>)) @@
    ((Chars("CapitalDifferentialD;") :> <<"U+2145">>) @@
    (Chars("Cayleys;") :> <<"U+212D">>))) @@
    (((Chars("Ccaron;") :> <<"U+010C">>) @@
    (Chars("Ccedil") :> <<"U+00C7">>)) @@
    ((Chars("Ccedil;") :> <<"U+00C7">>) @@
    ((Chars("Ccirc;") :> <<"U+0108">>) @@
    (Chars("Cconint;") :> <<"U+2230">>)))))) @@
    (((((Chars("Cdot;") :> <<"U+010A">>) @@
    (Chars("Cedilla;") :> <<"U+00B8">>)) @@
    ((Chars("CenterDot;") :> <<"U+00B7">>) @@
    (Chars("Cfr;") :> <<"U+212D">>))) @@ (((Chars("Chi;") :> <<"U+03A7">>) @@
    (Chars("CircleDot;") :> <<"U+2299">>)) @@
    ((Chars("CircleMinus;") :> <<"U+2296">>) @@
    ((Chars("CirclePlus;") :> <<"U+2295">>) @@
    (Chars("CircleTimes;") :> <<"U+2297">>))))) @@
    ((((Chars("ClockwiseContourIntegral;") :> <<"U+2232">>) @@
    (Chars("CloseCurlyDoubleQuote;") :> <<"U+201D">>)) @@
    ((Chars("CloseCurlyQuote;") :> <<"U+2019">>) @@
    (Chars("Colon;") :> <<"U+2237">>))) @@
    (((Chars("Colone;") :> <<"U+2A74">>) @@
    (Chars("Congruent;") :> <<"U+2261">>)) @@
    ((Chars("Conint;") :> <<"U+222F">>) @@
    ((Chars("ContourIntegral;") :> <<"U+222E">>) @@
    (Chars("Copf;") :> <<"U+2102">>)))))))) @@
    (((((((Chars("Coproduct;") :> <<"U+2210">>) @@
    (Chars("CounterClockwiseContourIntegral;") :> <<"U+2233">>)) @@
    ((Chars("Cross;") :> <<"U+2A2F">>) @@
    (Chars("Cscr;") :> <<"U+1D49E">>))) @@
    (((Chars("Cup;") :> <<"U+22D3">>) @@
    (Chars("CupCap;") :> <<"U+224D">>)) @@ ((Chars("DD;") :> <<"U+2145">>) @@
    (Chars("DDotrahd;") :> <<"U+2911">>)))) @@
    ((((Chars("DJcy;") :> <<"U+0402">>) @@
    (Chars("DScy;") :> <<"U+0405">>)) @@ ((Chars("DZcy;") :> <<"U+040F">>) @@
    (Chars("Dagger;") :> <<"U+2021">>))) @@
    (((Chars("Darr;") :> <<"U+21A1">>) @@
    (Chars("Dashv;") :> <<"U+2AE4">>)) @@
    ((Chars("Dcaron;") :> <<"U+010E">>) @@ ((Chars("Dcy;") :> <<"U+0414">>) @@
    (Chars("Del;") :> <<"U+2207">>)))))) @@
    (((((Chars("Delta;") :> <<"U+0394">>) @@
    (Chars("Dfr;") :> <<"U+1D507">>)) @@
    ((Chars("DiacriticalAcute;") :> <<"U+00B4">>) @@
    (Chars("DiacriticalDot;") :> <<"U+02D9">>))) @@
    (((Chars("DiacriticalDoubleAcute;") :> <<"U+02DD">>) @@
    (Chars("DiacriticalGrave;") :> <<"U+0060">>)) @@
    ((Chars("DiacriticalTilde;") :> <<"U+02DC">>) @@
    ((Chars("Diamond;") :> <<"U+22C4">>) @@
    (Chars("DifferentialD;") :> <<"U+2146">>))))) @@
    ((((Chars("Dopf;") :> <<"U+1D53B">>) @@
    (Chars("Dot;") :> <<"U+00A8">>)) @@ ((Chars("DotDot;") :> <<"U+20DC">>) @@
    (Chars("DotEqual;") :> <<"U+2250">>))) @@
    (((Chars("DoubleContourIntegral;") :> <<"U+222F">>) @@
    (Chars("DoubleDot;") :> <<"U+00A8">>)) @@
    ((Chars("DoubleDownArrow;") :> <<"U+21D3">>) @@
    ((Chars("DoubleLeftArrow;") :> <<"U+21D0">>) @@
    (Chars("DoubleLeftRightArrow;") :> <<"U+21D4">>))))))) @@
    ((((((Chars("DoubleLeftTee;") :> <<"U+2AE4">>) @@
    (Chars("DoubleLongLeftArrow;") :> <<"U+27F8">>)) @@
    ((Chars("DoubleLongLeftRightArrow;") :> <<"U+27FA">>) @@
    (Chars("DoubleLongRightArrow;") :> <<"U+27F9">>))) @@
    (((Chars("DoubleRightArrow;") :> <<"U+21D2">>) @@
    (Chars("DoubleRightTee;") :> <<"U+22A8">>)) @@
    ((Chars("DoubleUpArrow;") :> <<"U+21D1">>) @@
    (Chars("DoubleUpDownArrow;") :> <<"U+21D5">>)))) @@
    ((((Chars("DoubleVerticalBar;") :> <<"U+2225">>) @@
    (Chars("DownArrow;") :> <<"U+2193">>)) @@
    ((Chars("DownArrowBar;") :> <<"U+2913">>) @@
    (Chars("DownArrowUpArrow;") :> <<"U+21F5">>))) @@
    (((Chars("DownBreve;") :> <<"U+0311">>) @@
    (Chars("DownLeftRightVector;") :> <<"U+2950">>)) @@
    ((Chars("DownLeftTeeVector;") :> <<"U+295E">>) @@
    ((Chars("DownLeftVector;") :> <<"U+21BD">>) @@
    (Chars("DownLeftVectorBar;") :> <<"U+2956">>)))))) @@
    (((((Chars("DownRightTeeVector;") :> <<"U+295F">>) @@
    (Chars("DownRightVector;") :> <<"U+21C1">>)) @@
    ((Chars("DownRightVectorBar;") :> <<"U+2957">>) @@
    (Chars("DownTee;") :> <<"U+22A4">>))) @@
    (((Chars("DownTeeArrow;") :> <<"U+21A7">>) @@
    (Chars("Downarrow;") :> <<"U+21D3">>)) @@
    ((Chars("Dscr;") :> <<"U+1D49F">>) @@
    ((Chars("Dstrok;") :> <<"U+0110">>) @@
    (Chars("ENG;") :> <<"U+014A">>))))) @@
    ((((Chars("ETH") :> <<"U+00D0">>) @@ (Chars("ETH;") :> <<"U+00D0">>)) @@
    ((Chars("Eacute") :> <<"U+00C9">>) @@
    (Chars("Eacute;") :> <<"U+00C9">>))) @@
    (((Chars("Ecaron;") :> <<"U+011A">>) @@
    (Chars("Ecirc") :> <<"U+00CA">>)) @@ ((Chars("Ecirc;") :> <<"U+00CA">>) @@
    ((Chars("Ecy;") :> <<"U+042D">>) @@
    (Chars("Edot;") :> <<"U+0116">>))))))))) @@
    ((((((((Chars("Efr;") :> <<"U+1D508">>) @@
    (Chars("Egrave") :> <<"U+00C8">>)) @@
    ((Chars("Egrave;") :> <<"U+00C8">>) @@
    (Chars("Element;") :> <<"U+2208">>))) @@
    (((Chars("Emacr;") :> <<"U+0112">>) @@
    (Chars("EmptySmallSquare;") :> <<"U+25FB">>)) @@
    ((Chars("EmptyVerySmallSquare;") :> <<"U+25AB">>) @@
    (Chars("Eogon;") :> <<"U+0118">>)))) @@
    ((((Chars("Eopf;") :> <<"U+1D53C">>) @@
    (Chars("Epsilon;") :> <<"U+0395">>)) @@
    ((Chars("Equal;") :> <<"U+2A75">>) @@
    (Chars("EqualTilde;") :> <<"U+2242">>))) @@
    (((Chars("Equilibrium;") :> <<"U+21CC">>) @@
    (Chars("Escr;") :> <<"U+2130">>)) @@ ((Chars("Esim;") :> <<"U+2A73">>) @@
    ((Chars("Eta;") :> <<"U+0397">>) @@
    (Chars("Euml") :> <<"U+00CB">>)))))) @@
    (((((Chars("Euml;") :> <<"U+00CB">>) @@
    (Chars("Exists;") :> <<"U+2203">>)) @@
    ((Chars("ExponentialE;") :> <<"U+2147">>) @@
    (Chars("Fcy;") :> <<"U+0424">>))) @@ (((Chars("Ffr;") :> <<"U+1D509">>) @@
    (Chars("FilledSmallSquare;") :> <<"U+25FC">>)) @@
    ((Chars("FilledVerySmallSquare;") :> <<"U+25AA">>) @@
    (Chars("Fopf;") :> <<"U+1D53D">>)))) @@
    ((((Chars("ForAll;") :> <<"U+2200">>) @@
    (Chars("Fouriertrf;") :> <<"U+2131">>)) @@
    ((Chars("Fscr;") :> <<"U+2131">>) @@ (Chars("GJcy;") :> <<"U+0403">>))) @@
    (((Chars("GT") :> <<">">>) @@ (Chars("GT;") :> <<">">>)) @@
    ((Chars("Gamma;") :> <<"U+0393">>) @@
    ((Chars("Gammad;") :> <<"U+03DC">>) @@
    (Chars("Gbreve;") :> <<"U+011E">>))))))) @@
    ((((((Chars("Gcedil;") :> <<"U+0122">>) @@
    (Chars("Gcirc;") :> <<"U+011C">>)) @@ ((Chars("Gcy;") :> <<"U+0413">>) @@
    (Chars("Gdot;") :> <<"U+0120">>))) @@
    (((Chars("Gfr;") :> <<"U+1D50A">>) @@ (Chars("Gg;") :> <<"U+22D9">>)) @@
    ((Chars("Gopf;") :> <<"U+1D53E">>) @@
    (Chars("GreaterEqual;") :> <<"U+2265">>)))) @@
    ((((Chars("GreaterEqualLess;") :> <<"U+22DB">>) @@
    (Chars("GreaterFullEqual;") :> <<"U+2267">>)) @@
    ((Chars("GreaterGreater;") :> <<"U+2AA2">>) @@
    (Chars("GreaterLess;") :> <<"U+2277">>))) @@
    (((Chars("GreaterSlantEqual;") :> <<"U+2A7E">>) @@
    (Chars("GreaterTilde;") :> <<"U+2273">>)) @@
    ((Chars("Gscr;") :> <<"U+1D4A2">>) @@ ((Chars("Gt;") :> <<"U+226B">>) @@
    (Chars("HARDcy;") :> <<"U+042A">>)))))) @@
    (((((Chars("Hacek;") :> <<"U+02C7">>) @@ (Chars("Hat;") :> <<"^">>)) @@
    ((Chars("Hcirc;") :> <<"U+0124">>) @@ (Chars("Hfr;") :> <<"U+210C">>))) @@
    (((Chars("HilbertSpace;") :> <<"U+210B">>) @@
    (Chars("Hopf;") :> <<"U+210D">>)) @@
    ((Chars("HorizontalLine;") :> <<"U+2500">>) @@
    ((Chars("Hscr;") :> <<"U+210B">>) @@
    (Chars("Hstrok;") :> <<"U+0126">>))))) @@
    ((((Chars("HumpDownHump;") :> <<"U+224E">>) @@
    (Chars("HumpEqual;") :> <<"U+224F">>)) @@
    ((Chars("IEcy;") :> <<"U+0415">>) @@
    (Chars("IJlig;") :> <<"U+0132">>))) @@
    (((Chars("IOcy;") :> <<"U+0401">>) @@
    (Chars("Iacute") :> <<"U+00CD">>)) @@
    ((Chars("Iacute;") :> <<"U+00CD">>) @@
    ((Chars("Icirc") :> <<"U+00CE">>) @@
    (Chars("Icirc;") :> <<"U+00CE">>)))))))) @@
    (((((((Chars("Icy;") :> <<"U+0418">>) @@
    (Chars("Idot;") :> <<"U+0130">>)) @@ ((Chars("Ifr;") :> <<"U+2111">>) @@
    (Chars("Igrave") :> <<"U+00CC">>))) @@
    (((Chars("Igrave;") :> <<"U+00CC">>) @@ (Chars("Im;") :> <<"U+2111">>)) @@
    ((Chars("Imacr;") :> <<"U+012A">>) @@
    (Chars("ImaginaryI;") :> <<"U+2148">>)))) @@
    ((((Chars("Implies;") :> <<"U+21D2">>) @@
    (Chars("Int;") :> <<"U+222C">>)) @@
    ((Chars("Integral;") :> <<"U+222B">>) @@
    (Chars("Intersection;") :> <<"U+22C2">>))) @@
    (((Chars("InvisibleComma;") :> <<"U+2063">>) @@
    (Chars("InvisibleTimes;") :> <<"U+2062">>)) @@
    ((Chars("Iogon;") :> <<"U+012E">>) @@
    ((Chars("Iopf;") :> <<"U+1D540">>) @@
    (Chars("Iota;") :> <<"U+0399">>)))))) @@
    (((((Chars("Iscr;") :> <<"U+2110">>) @@
    (Chars("Itilde;") :> <<"U+0128">>)) @@
    ((Chars("Iukcy;") :> <<"U+0406">>) @@ (Chars("Iuml") :> <<"U+00CF">>))) @@
    (((Chars("Iuml;") :> <<"U+00CF">>) @@
    (Chars("Jcirc;") :> <<"U+0134">>)) @@ ((Chars("Jcy;") :> <<"U+0419">>) @@
    ((Chars("Jfr;") :> <<"U+1D50D">>) @@
    (Chars("Jopf;") :> <<"U+1D541">>))))) @@
    ((((Chars("Jscr;") :> <<"U+1D4A5">>) @@
    (Chars("Jsercy;") :> <<"U+0408">>)) @@
    ((Chars("Jukcy;") :> <<"U+0404">>) @@
    (Chars("KHcy;") :> <<"U+0425">>))) @@
    (((Chars("KJcy;") :> <<"U+040C">>) @@
    (Chars("Kappa;") :> <<"U+039A">>)) @@
    ((Chars("Kcedil;") :> <<"U+0136">>) @@ ((Chars("Kcy;") :> <<"U+041A">>) @@
    (Chars("Kfr;") :> <<"U+1D50E">>))))))) @@
    ((((((Chars("Kopf;") :> <<"U+1D542">>) @@
    (Chars("Kscr;") :> <<"U+1D4A6">>)) @@ ((Chars("LJcy;") :> <<"U+0409">>) @@
    (Chars("LT") :> <<"<">>))) @@ (((Chars("LT;") :> <<"<">>) @@
    (Chars("Lacute;") :> <<"U+0139">>)) @@
    ((Chars("Lambda;") :> <<"U+039B">>) @@
    (Chars("Lang;") :> <<"U+27EA">>)))) @@
    ((((Chars("Laplacetrf;") :> <<"U+2112">>) @@
    (Chars("Larr;") :> <<"U+219E">>)) @@
    ((Chars("Lcaron;") :> <<"U+013D">>) @@
    (Chars("Lcedil;") :> <<"U+013B">>))) @@
    (((Chars("Lcy;") :> <<"U+041B">>) @@
    (Chars("LeftAngleBracket;") :> <<"U+27E8">>)) @@
    ((Chars("LeftArrow;") :> <<"U+2190">>) @@
    ((Chars("LeftArrowBar;") :> <<"U+21E4">>) @@
    (Chars("LeftArrowRightArrow;") :> <<"U+21C6">>)))))) @@
    (((((Chars("LeftCeiling;") :> <<"U+2308">>) @@
    (Chars("LeftDoubleBracket;") :> <<"U+27E6">>)) @@
    ((Chars("LeftDownTeeVector;") :> <<"U+2961">>) @@
    (Chars("LeftDownVector;") :> <<"U+21C3">>))) @@
    (((Chars("LeftDownVectorBar;") :> <<"U+2959">>) @@
    (Chars("LeftFloor;") :> <<"U+230A">>)) @@
    ((Chars("LeftRightArrow;") :> <<"U+2194">>) @@
    ((Chars("LeftRightVector;") :> <<"U+294E">>) @@
    (Chars("LeftTee;") :> <<"U+22A3">>))))) @@
    ((((Chars("LeftTeeArrow;") :> <<"U+21A4">>) @@
    (Chars("LeftTeeVector;") :> <<"U+295A">>)) @@
    ((Chars("LeftTriangle;") :> <<"U+22B2">>) @@
    (Chars("LeftTriangleBar;") :> <<"U+29CF">>))) @@
    (((Chars("LeftTriangleEqual;") :> <<"U+22B4">>) @@
    (Chars("LeftUpDownVector;") :> <<"U+2951">>)) @@
    ((Chars("LeftUpTeeVector;") :> <<"U+2960">>) @@
    ((Chars("LeftUpVector;") :> <<"U+21BF">>) @@
    (Chars("LeftUpVectorBar;") :> <<"U+2958">>)))))))))) @@
    (((((((((Chars("LeftVector;") :> <<"U+21BC">>) @@
    (Chars("LeftVectorBar;") :> <<"U+2952">>)) @@
    ((Chars("Leftarrow;") :> <<"U+21D0">>) @@
    (Chars("Leftrightarrow;") :> <<"U+21D4">>))) @@
    (((Chars("LessEqualGreater;") :> <<"U+22DA">>) @@
    (Chars("LessFullEqual;") :> <<"U+2266">>)) @@
    ((Chars("LessGreater;") :> <<"U+2276">>) @@
    (Chars("LessLess;") :> <<"U+2AA1">>)))) @@
    ((((Chars("LessSlantEqual;") :> <<"U+2A7D">>) @@
    (Chars("LessTilde;") :> <<"U+2272">>)) @@
    ((Chars("Lfr;") :> <<"U+1D50F">>) @@ (Chars("Ll;") :> <<"U+22D8">>))) @@
    (((Chars("Lleftarrow;") :> <<"U+21DA">>) @@
    (Chars("Lmidot;") :> <<"U+013F">>)) @@
    ((Chars("LongLeftArrow;") :> <<"U+27F5">>) @@
    ((Chars("LongLeftRightArrow;") :> <<"U+27F7">>) @@
    (Chars("LongRightArrow;") :> <<"U+27F6">>)))))) @@
    (((((Chars("Longleftarrow;") :> <<"U+27F8">>) @@
    (Chars("Longleftrightarrow;") :> <<"U+27FA">>)) @@
    ((Chars("Longrightarrow;") :> <<"U+27F9">>) @@
    (Chars("Lopf;") :> <<"U+1D543">>))) @@
    (((Chars("LowerLeftArrow;") :> <<"U+2199">>) @@
    (Chars("LowerRightArrow;") :> <<"U+2198">>)) @@
    ((Chars("Lscr;") :> <<"U+2112">>) @@ (Chars("Lsh;") :> <<"U+21B0">>)))) @@
    ((((Chars("Lstrok;") :> <<"U+0141">>) @@
    (Chars("Lt;") :> <<"U+226A">>)) @@ ((Chars("Map;") :> <<"U+2905">>) @@
    (Chars("Mcy;") :> <<"U+041C">>))) @@
    (((Chars("MediumSpace;") :> <<"U+205F">>) @@
    (Chars("Mellintrf;") :> <<"U+2133">>)) @@
    ((Chars("Mfr;") :> <<"U+1D510">>) @@
    ((Chars("MinusPlus;") :> <<"U+2213">>) @@
    (Chars("Mopf;") :> <<"U+1D544">>))))))) @@
    ((((((Chars("Mscr;") :> <<"U+2133">>) @@
    (Chars("Mu;") :> <<"U+039C">>)) @@ ((Chars("NJcy;") :> <<"U+040A">>) @@
    (Chars("Nacute;") :> <<"U+0143">>))) @@
    (((Chars("Ncaron;") :> <<"U+0147">>) @@
    (Chars("Ncedil;") :> <<"U+0145">>)) @@ ((Chars("Ncy;") :> <<"U+041D">>) @@
    (Chars("NegativeMediumSpace;") :> <<"U+200B">>)))) @@
    ((((Chars("NegativeThickSpace;") :> <<"U+200B">>) @@
    (Chars("NegativeThinSpace;") :> <<"U+200B">>)) @@
    ((Chars("NegativeVeryThinSpace;") :> <<"U+200B">>) @@
    (Chars("NestedGreaterGreater;") :> <<"U+226B">>))) @@
    (((Chars("NestedLessLess;") :> <<"U+226A">>) @@
    (Chars("NewLine;") :> <<"\n">>)) @@ ((Chars("Nfr;") :> <<"U+1D511">>) @@
    ((Chars("NoBreak;") :> <<"U+2060">>) @@
    (Chars("NonBreakingSpace;") :> <<"U+00A0">>)))))) @@
    (((((Chars("Nopf;") :> <<"U+2115">>) @@
    (Chars("Not;") :> <<"U+2AEC">>)) @@
    ((Chars("NotCongruent;") :> <<"U+2262">>) @@
    (Chars("NotCupCap;") :> <<"U+226D">>))) @@
    (((Chars("NotDoubleVerticalBar;") :> <<"U+2226">>) @@
    (Chars("NotElement;") :> <<"U+2209">>)) @@
    ((Chars("NotEqual;") :> <<"U+2260">>) @@
    ((Chars("NotEqualTilde;") :> <<"U+2242", "U+0338">>) @@
    (Chars("NotExists;") :> <<"U+2204">>))))) @@
    ((((Chars("NotGreater;") :> <<"U+226F">>) @@
    (Chars("NotGreaterEqual;") :> <<"U+2271">>)) @@
    ((Chars("NotGreaterFullEqual;") :> <<"U+2267", "U+0338">>) @@
    (Chars("NotGreaterGreater;") :> <<"U+226B", "U+0338">>))) @@
    (((Chars("NotGreaterLess;") :> <<"U+2279">>) @@
    (Chars("NotGreaterSlantEqual;") :> <<"U+2A7E", "U+0338">>)) @@
    ((Chars("NotGreaterTilde;") :> <<"U+2275">>) @@
    ((Chars("NotHumpDownHump;") :> <<"U+224E", "U+0338">>) @@
    (Chars("NotHumpEqual;") :> <<"U+224F", "U+0338">>)))))))) @@
    (((((((Chars("NotLeftTriangle;") :> <<"U+22EA">>) @@
    (Chars("NotLeftTriangleBar;") :> <<"U+29CF", "U+0338">>)) @@
    ((Chars("NotLeftTriangleEqual;") :> <<"U+22EC">>) @@
    (Chars("NotLess;") :> <<"U+226E">>))) @@
    (((Chars("NotLessEqual;") :> <<"U+2270">>) @@
    (Chars("NotLessGreater;") :> <<"U+2278">>)) @@
    ((Chars("NotLessLess;") :> <<"U+226A", "U+0338">>) @@
    (Chars("NotLessSlantEqual;") :> <<"U+2A7D", "U+0338">>)))) @@
    ((((Chars("NotLessTilde;") :> <<"U+2274">>) @@
    (Chars("NotNestedGreaterGreater;") :> <<"U+2AA2", "U+0338">>)) @@
    ((Chars("NotNestedLessLess;") :> <<"U+2AA1", "U+0338">>) @@
    (Chars("NotPrecedes;") :> <<"U+2280">>))) @@
    (((Chars("NotPrecedesEqual;") :> <<"U+2AAF", "U+0338">>) @@
    (Chars("NotPrecedesSlantEqual;") :> <<"U+22E0">>)) @@
    ((Chars("NotReverseElement;") :> <<"U+220C">>) @@
    ((Chars("NotRightTriangle;") :> <<"U+22EB">>) @@
    (Chars("NotRightTriangleBar;") :> <<"U+29D0", "U+0338">>)))))) @@
    (((((Chars("NotRightTriangleEqual;") :> <<"U+22ED">>) @@
    (Chars("NotSquareSubset;") :> <<"U+228F", "U+0338">>)) @@
    ((Chars("NotSquareSubsetEqual;") :> <<"U+22E2">>) @@
    (Chars("NotSquareSuperset;") :> <<"U+2290", "U+0338">>))) @@
    (((Chars("NotSquareSupersetEqual;") :> <<"U+22E3">>) @@
    (Chars("NotSubset;") :> <<"U+2282", "U+20D2">>)) @@
    ((Chars("NotSubsetEqual;") :> <<"U+2288">>) @@
    ((Chars("NotSucceeds;") :> <<"U+2281">>) @@
    (Chars("NotSucceedsEqual;") :> <<"U+2AB0", "U+0338">>))))) @@
    ((((Chars("NotSucceedsSlantEqual;") :> <<"U+22E1">>) @@
    (Chars("NotSucceedsTilde;") :> <<"U+227F", "U+0338">>)) @@
    ((Chars("NotSuperset;") :> <<"U+2283", "U+20D2">>) @@
    (Chars("NotSupersetEqual;") :> <<"U+2289">>))) @@
    (((Chars("NotTilde;") :> <<"U+2241">>) @@
    (Chars("NotTildeEqual;") :> <<"U+2244">>)) @@
    ((Chars("NotTildeFullEqual;") :> <<"U+2247">>) @@
    ((Chars("NotTildeTilde;") :> <<"U+2249">>) @@
    (Chars("NotVerticalBar;") :> <<"U+2224">>))))))) @@
    ((((((Chars("Nscr;") :> <<"U+1D4A9">>) @@
    (Chars("Ntilde") :> <<"U+00D1">>)) @@
    ((Chars("Ntilde;") :> <<"U+00D1">>) @@ (Chars("Nu;") :> <<"U+039D">>))) @@
    (((Chars("OElig;") :> <<"U+0152">>) @@
    (Chars("Oacute") :> <<"U+00D3">>)) @@
    ((Chars("Oacute;") :> <<"U+00D3">>) @@
    (Chars("Ocirc") :> <<"U+00D4">>)))) @@
    ((((Chars("Ocirc;") :> <<"U+00D4">>) @@
    (Chars("Ocy;") :> <<"U+041E">>)) @@ ((Chars("Odblac;") :> <<"U+0150">>) @@
    (Chars("Ofr;") :> <<"U+1D512">>))) @@
    (((Chars("Ograve") :> <<"U+00D2">>) @@
    (Chars("Ograve;") :> <<"U+00D2">>)) @@
    ((Chars("Omacr;") :> <<"U+014C">>) @@
    ((Chars("Omega;") :> <<"U+03A9">>) @@
    (Chars("Omicron;") :> <<"U+039F">>)))))) @@
    (((((Chars("Oopf;") :> <<"U+1D546">>) @@
    (Chars("OpenCurlyDoubleQuote;") :> <<"U+201C">>)) @@
    ((Chars("OpenCurlyQuote;") :> <<"U+2018">>) @@
    (Chars("Or;") :> <<"U+2A54">>))) @@ (((Chars("Oscr;") :> <<"U+1D4AA">>) @@
    (Chars("Oslash") :> <<"U+00D8">>)) @@
    ((Chars("Oslash;") :> <<"U+00D8">>) @@
    ((Chars("Otilde") :> <<"U+00D5">>) @@
    (Chars("Otilde;") :> <<"U+00D5">>))))) @@
    ((((Chars("Otimes;") :> <<"U+2A37">>) @@
    (Chars("Ouml") :> <<"U+00D6">>)) @@ ((Chars("Ouml;") :> <<"U+00D6">>) @@
    (Chars("OverBar;") :> <<"U+203E">>))) @@
    (((Chars("OverBrace;") :> <<"U+23DE">>) @@
    (Chars("OverBracket;") :> <<"U+23B4">>)) @@
    ((Chars("OverParenthesis;") :> <<"U+23DC">>) @@
    ((Chars("PartialD;") :> <<"U+2202">>) @@
    (Chars("Pcy;") :> <<"U+041F">>))))))))) @@
    ((((((((Chars("Pfr;") :> <<"U+1D513">>) @@
    (Chars("Phi;") :> <<"U+03A6">>)) @@ ((Chars("Pi;") :> <<"U+03A0">>) @@
    (Chars("PlusMinus;") :> <<"U+00B1">>))) @@
    (((Chars("Poincareplane;") :> <<"U+210C">>) @@
    (Chars("Popf;") :> <<"U+2119">>)) @@ ((Chars("Pr;") :> <<"U+2ABB">>) @@
    (Chars("Precedes;") :> <<"U+227A">>)))) @@
    ((((Chars("PrecedesEqual;") :> <<"U+2AAF">>) @@
    (Chars("PrecedesSlantEqual;") :> <<"U+227C">>)) @@
    ((Chars("PrecedesTilde;") :> <<"U+227E">>) @@
    (Chars("Prime;") :> <<"U+2033">>))) @@
    (((Chars("Product;") :> <<"U+220F">>) @@
    (Chars("Proportion;") :> <<"U+2237">>)) @@
    ((Chars("Proportional;") :> <<"U+221D">>) @@
    ((Chars("Pscr;") :> <<"U+1D4AB">>) @@
    (Chars("Psi;") :> <<"U+03A8">>)))))) @@ (((((Chars("QUOT") :> <<"\"">>) @@
    (Chars("QUOT;") :> <<"\"">>)) @@ ((Chars("Qfr;") :> <<"U+1D514">>) @@
    (Chars("Qopf;") :> <<"U+211A">>))) @@
    (((Chars("Qscr;") :> <<"U+1D4AC">>) @@
    (Chars("RBarr;") :> <<"U+2910">>)) @@ ((Chars("REG") :> <<"U+00AE">>) @@
    ((Chars("REG;") :> <<"U+00AE">>) @@
    (Chars("Racute;") :> <<"U+0154">>))))) @@
    ((((Chars("Rang;") :> <<"U+27EB">>) @@
    (Chars("Rarr;") :> <<"U+21A0">>)) @@
    ((Chars("Rarrtl;") :> <<"U+2916">>) @@
    (Chars("Rcaron;") :> <<"U+0158">>))) @@
    (((Chars("Rcedil;") :> <<"U+0156">>) @@
    (Chars("Rcy;") :> <<"U+0420">>)) @@ ((Chars("Re;") :> <<"U+211C">>) @@
    ((Chars("ReverseElement;") :> <<"U+220B">>) @@
    (Chars("ReverseEquilibrium;") :> <<"U+21CB">>))))))) @@
    ((((((Chars("ReverseUpEquilibrium;") :> <<"U+296F">>) @@
    (Chars("Rfr;") :> <<"U+211C">>)) @@ ((Chars("Rho;") :> <<"U+03A1">>) @@
    (Chars("RightAngleBracket;") :> <<"U+27E9">>))) @@
    (((Chars("RightArrow;") :> <<"U+2192">>) @@
    (Chars("RightArrowBar;") :> <<"U+21E5">>)) @@
    ((Chars("RightArrowLeftArrow;") :> <<"U+21C4">>) @@
    (Chars("RightCeiling;") :> <<"U+2309">>)))) @@
    ((((Chars("RightDoubleBracket;") :> <<"U+27E7">>) @@
    (Chars("RightDownTeeVector;") :> <<"U+295D">>)) @@
    ((Chars("RightDownVector;") :> <<"U+21C2">>) @@
    (Chars("RightDownVectorBar;") :> <<"U+2955">>))) @@
    (((Chars("RightFloor;") :> <<"U+230B">>) @@
    (Chars("RightTee;") :> <<"U+22A2">>)) @@
    ((Chars("RightTeeArrow;") :> <<"U+21A6">>) @@
    ((Chars("RightTeeVector;") :> <<"U+295B">>) @@
    (Chars("RightTriangle;") :> <<"U+22B3">>)))))) @@
    (((((Chars("RightTriangleBar;") :> <<"U+29D0">>) @@
    (Chars("RightTriangleEqual;") :> <<"U+22B5">>)) @@
    ((Chars("RightUpDownVector;") :> <<"U+294F">>) @@
    (Chars("RightUpTeeVector;") :> <<"U+295C">>))) @@
    (((Chars("RightUpVector;") :> <<"U+21BE">>) @@
    (Chars("RightUpVectorBar;") :> <<"U+2954">>)) @@
    ((Chars("RightVector;") :> <<"U+21C0">>) @@
    ((Chars("RightVectorBar;") :> <<"U+2953">>) @@
    (Chars("Rightarrow;") :> <<"U+21D2">>))))) @@
    ((((Chars("Ropf;") :> <<"U+211D">>) @@
    (Chars("RoundImplies;") :> <<"U+2970">>)) @@
    ((Chars("Rrightarrow;") :> <<"U+21DB">>) @@
    (Chars("Rscr;") :> <<"U+211B">>))) @@ (((Chars("Rsh;") :> <<"U+21B1">>) @@
    (Chars("RuleDelayed;") :> <<"U+29F4">>)) @@
    ((Chars("SHCHcy;") :> <<"U+0429">>) @@
    ((Chars("SHcy;") :> <<"U+0428">>) @@
    (Chars("SOFTcy;") :> <<"U+042C">>)))))))) @@
    (((((((Chars("Sacute;") :> <<"U+015A">>) @@
    (Chars("Sc;") :> <<"U+2ABC">>)) @@ ((Chars("Scaron;") :> <<"U+0160">>) @@
    (Chars("Scedil;") :> <<"U+015E">>))) @@
    (((Chars("Scirc;") :> <<"U+015C">>) @@ (Chars("Scy;") :> <<"U+0421">>)) @@
    ((Chars("Sfr;") :> <<"U+1D516">>) @@
    (Chars("ShortDownArrow;") :> <<"U+2193">>)))) @@
    ((((Chars("ShortLeftArrow;") :> <<"U+2190">>) @@
    (Chars("ShortRightArrow;") :> <<"U+2192">>)) @@
    ((Chars("ShortUpArrow;") :> <<"U+2191">>) @@
    (Chars("Sigma;") :> <<"U+03A3">>))) @@
    (((Chars("SmallCircle;") :> <<"U+2218">>) @@
    (Chars("Sopf;") :> <<"U+1D54A">>)) @@ ((Chars("Sqrt;") :> <<"U+221A">>) @@
    ((Chars("Square;") :> <<"U+25A1">>) @@
    (Chars("SquareIntersection;") :> <<"U+2293">>)))))) @@
    (((((Chars("SquareSubset;") :> <<"U+228F">>) @@
    (Chars("SquareSubsetEqual;") :> <<"U+2291">>)) @@
    ((Chars("SquareSuperset;") :> <<"U+2290">>) @@
    (Chars("SquareSupersetEqual;") :> <<"U+2292">>))) @@
    (((Chars("SquareUnion;") :> <<"U+2294">>) @@
    (Chars("Sscr;") :> <<"U+1D4AE">>)) @@ ((Chars("Star;") :> <<"U+22C6">>) @@
    ((Chars("Sub;") :> <<"U+22D0">>) @@
    (Chars("Subset;") :> <<"U+22D0">>))))) @@
    ((((Chars("SubsetEqual;") :> <<"U+2286">>) @@
    (Chars("Succeeds;") :> <<"U+227B">>)) @@
    ((Chars("SucceedsEqual;") :> <<"U+2AB0">>) @@
    (Chars("SucceedsSlantEqual;") :> <<"U+227D">>))) @@
    (((Chars("SucceedsTilde;") :> <<"U+227F">>) @@
    (Chars("SuchThat;") :> <<"U+220B">>)) @@
    ((Chars("Sum;") :> <<"U+2211">>) @@ ((Chars("Sup;") :> <<"U+22D1">>) @@
    (Chars("Superset;") :> <<"U+2283">>))))))) @@
    ((((((Chars("SupersetEqual;") :> <<"U+2287">>) @@
    (Chars("Supset;") :> <<"U+22D1">>)) @@
    ((Chars("THORN") :> <<"U+00DE">>) @@
    (Chars("THORN;") :> <<"U+00DE">>))) @@
    (((Chars("TRADE;") :> <<"U+2122">>) @@
    (Chars("TSHcy;") :> <<"U+040B">>)) @@ ((Chars("TScy;") :> <<"U+0426">>) @@
    (Chars("Tab;") :> <<"\t">>)))) @@ ((((Chars("Tau;") :> <<"U+03A4">>) @@
    (Chars("Tcaron;") :> <<"U+0164">>)) @@
    ((Chars("Tcedil;") :> <<"U+0162">>) @@
    (Chars("Tcy;") :> <<"U+0422">>))) @@ (((Chars("Tfr;") :> <<"U+1D517">>) @@
    (Chars("Therefore;") :> <<"U+2234">>)) @@
    ((Chars("Theta;") :> <<"U+0398">>) @@
    ((Chars("ThickSpace;") :> <<"U+205F", "U+200A">>) @@
    (Chars("ThinSpace;") :> <<"U+2009">>)))))) @@
    (((((Chars("Tilde;") :> <<"U+223C">>) @@
    (Chars("TildeEqual;") :> <<"U+2243">>)) @@
    ((Chars("TildeFullEqual;") :> <<"U+2245">>) @@
    (Chars("TildeTilde;") :> <<"U+2248">>))) @@
    (((Chars("Topf;") :> <<"U+1D54B">>) @@
    (Chars("TripleDot;") :> <<"U+20DB">>)) @@
    ((Chars("Tscr;") :> <<"U+1D4AF">>) @@
    ((Chars("Tstrok;") :> <<"U+0166">>) @@
    (Chars("Uacute") :> <<"U+00DA">>))))) @@
    ((((Chars("Uacute;") :> <<"U+00DA">>) @@
    (Chars("Uarr;") :> <<"U+219F">>)) @@
    ((Chars("Uarrocir;") :> <<"U+2949">>) @@
    (Chars("Ubrcy;") :> <<"U+040E">>))) @@
    (((Chars("Ubreve;") :> <<"U+016C">>) @@
    (Chars("Ucirc") :> <<"U+00DB">>)) @@ ((Chars("Ucirc;") :> <<"U+00DB">>) @@
    ((Chars("Ucy;") :> <<"U+0423">>) @@
    (Chars("Udblac;") :> <<"U+0170">>))))))))))) @@
    ((((((((((Chars("Ufr;") :> <<"U+1D518">>) @@
    (Chars("Ugrave") :> <<"U+00D9">>)) @@
    ((Chars("Ugrave;") :> <<"U+00D9">>) @@
    (Chars("Umacr;") :> <<"U+016A">>))) @@
    (((Chars("UnderBar;") :> <<"_">>) @@
    (Chars("UnderBrace;") :> <<"U+23DF">>)) @@
    ((Chars("UnderBracket;") :> <<"U+23B5">>) @@
    (Chars("UnderParenthesis;") :> <<"U+23DD">>)))) @@
    ((((Chars("Union;") :> <<"U+22C3">>) @@
    (Chars("UnionPlus;") :> <<"U+228E">>)) @@
    ((Chars("Uogon;") :> <<"U+0172">>) @@
    (Chars("Uopf;") :> <<"U+1D54C">>))) @@
    (((Chars("UpArrow;") :> <<"U+2191">>) @@
    (Chars("UpArrowBar;") :> <<"U+2912">>)) @@
    ((Chars("UpArrowDownArrow;") :> <<"U+21C5">>) @@
    ((Chars("UpDownArrow;") :> <<"U+2195">>) @@
    (Chars("UpEquilibrium;") :> <<"U+296E">>)))))) @@
    (((((Chars("UpTee;") :> <<"U+22A5">>) @@
    (Chars("UpTeeArrow;") :> <<"U+21A5">>)) @@
    ((Chars("Uparrow;") :> <<"U+21D1">>) @@
    (Chars("Updownarrow;") :> <<"U+21D5">>))) @@
    (((Chars("UpperLeftArrow;") :> <<"U+2196">>) @@
    (Chars("UpperRightArrow;") :> <<"U+2197">>)) @@
    ((Chars("Upsi;") :> <<"U+03D2">>) @@
    (Chars("Upsilon;") :> <<"U+03A5">>)))) @@
    ((((Chars("Uring;") :> <<"U+016E">>) @@
    (Chars("Uscr;") :> <<"U+1D4B0">>)) @@
    ((Chars("Utilde;") :> <<"U+0168">>) @@
    (Chars("Uuml") :> <<"U+00DC">>))) @@ (((Chars("Uuml;") :> <<"U+00DC">>) @@
    (Chars("VDash;") :> <<"U+22AB">>)) @@ ((Chars("Vbar;") :> <<"U+2AEB">>) @@
    ((Chars("Vcy;") :> <<"U+0412">>) @@
    (Chars("Vdash;") :> <<"U+22A9">>))))))) @@
    ((((((Chars("Vdashl;") :> <<"U+2AE6">>) @@
    (Chars("Vee;") :> <<"U+22C1">>)) @@ ((Chars("Verbar;") :> <<"U+2016">>) @@
    (Chars("Vert;") :> <<"U+2016">>))) @@
    (((Chars("VerticalBar;") :> <<"U+2223">>) @@
    (Chars("VerticalLine;") :> <<"|">>)) @@
    ((Chars("VerticalSeparator;") :> <<"U+2758">>) @@
    (Chars("VerticalTilde;") :> <<"U+2240">>)))) @@
    ((((Chars("VeryThinSpace;") :> <<"U+200A">>) @@
    (Chars("Vfr;") :> <<"U+1D519">>)) @@ ((Chars("Vopf;") :> <<"U+1D54D">>) @@
    (Chars("Vscr;") :> <<"U+1D4B1">>))) @@
    (((Chars("Vvdash;") :> <<"U+22AA">>) @@
    (Chars("Wcirc;") :> <<"U+0174">>)) @@
    ((Chars("Wedge;") :> <<"U+22C0">>) @@ ((Chars("Wfr;") :> <<"U+1D51A">>) @@
    (Chars("Wopf;") :> <<"U+1D54E">>)))))) @@
    (((((Chars("Wscr;") :> <<"U+1D4B2">>) @@
    (Chars("Xfr;") :> <<"U+1D51B">>)) @@ ((Chars("Xi;") :> <<"U+039E">>) @@
    (Chars("Xopf;") :> <<"U+1D54F">>))) @@
    (((Chars("Xscr;") :> <<"U+1D4B3">>) @@
    (Chars("YAcy;") :> <<"U+042F">>)) @@ ((Chars("YIcy;") :> <<"U+0407">>) @@
    ((Chars("YUcy;") :> <<"U+042E">>) @@
    (Chars("Yacute") :> <<"U+00DD">>))))) @@
    ((((Chars("Yacute;") :> <<"U+00DD">>) @@
    (Chars("Ycirc;") :> <<"U+0176">>)) @@ ((Chars("Ycy;") :> <<"U+042B">>) @@
    (Chars("Yfr;") :> <<"U+1D51C">>))) @@
    (((Chars("Yopf;") :> <<"U+1D550">>) @@
    (Chars("Yscr;") :> <<"U+1D4B4">>)) @@ ((Chars("Yuml;") :> <<"U+0178">>) @@
    ((Chars("ZHcy;") :> <<"U+0416">>) @@
    (Chars("Zacute;") :> <<"U+0179">>)))))))) @@
    (((((((Chars("Zcaron;") :> <<"U+017D">>) @@
    (Chars("Zcy;") :> <<"U+0417">>)) @@ ((Chars("Zdot;") :> <<"U+017B">>) @@
    (Chars("ZeroWidthSpace;") :> <<"U+200B">>))) @@
    (((Chars("Zeta;") :> <<"U+0396">>) @@ (Chars("Zfr;") :> <<"U+2128">>)) @@
    ((Chars("Zopf;") :> <<"U+2124">>) @@
    (Chars("Zscr;") :> <<"U+1D4B5">>)))) @@
    ((((Chars("aacute") :> <<"U+00E1">>) @@
    (Chars("aacute;") :> <<"U+00E1">>)) @@
    ((Chars("abreve;") :> <<"U+0103">>) @@ (Chars("ac;") :> <<"U+223E">>))) @@
    (((Chars("acE;") :> <<"U+223E", "U+0333">>) @@
    (Chars("acd;") :> <<"U+223F">>)) @@ ((Chars("acirc") :> <<"U+00E2">>) @@
    ((Chars("acirc;") :> <<"U+00E2">>) @@
    (Chars("acute") :> <<"U+00B4">>)))))) @@
    (((((Chars("acute;") :> <<"U+00B4">>) @@
    (Chars("acy;") :> <<"U+0430">>)) @@ ((Chars("aelig") :> <<"U+00E6">>) @@
    (Chars("aelig;") :> <<"U+00E6">>))) @@ (((Chars("af;") :> <<"U+2061">>) @@
    (Chars("afr;") :> <<"U+1D51E">>)) @@ ((Chars("agrave") :> <<"U+00E0">>) @@
    ((Chars("agrave;") :> <<"U+00E0">>) @@
    (Chars("alefsym;") :> <<"U+2135">>))))) @@
    ((((Chars("aleph;") :> <<"U+2135">>) @@
    (Chars("alpha;") :> <<"U+03B1">>)) @@
    ((Chars("amacr;") :> <<"U+0101">>) @@
    (Chars("amalg;") :> <<"U+2A3F">>))) @@ (((Chars("amp") :> <<"&">>) @@
    (Chars("amp;") :> <<"&">>)) @@ ((Chars("and;") :> <<"U+2227">>) @@
    ((Chars("andand;") :> <<"U+2A55">>) @@
    (Chars("andd;") :> <<"U+2A5C">>))))))) @@
    ((((((Chars("andslope;") :> <<"U+2A58">>) @@
    (Chars("andv;") :> <<"U+2A5A">>)) @@ ((Chars("ang;") :> <<"U+2220">>) @@
    (Chars("ange;") :> <<"U+29A4">>))) @@
    (((Chars("angle;") :> <<"U+2220">>) @@
    (Chars("angmsd;") :> <<"U+2221">>)) @@
    ((Chars("angmsdaa;") :> <<"U+29A8">>) @@
    (Chars("angmsdab;") :> <<"U+29A9">>)))) @@
    ((((Chars("angmsdac;") :> <<"U+29AA">>) @@
    (Chars("angmsdad;") :> <<"U+29AB">>)) @@
    ((Chars("angmsdae;") :> <<"U+29AC">>) @@
    (Chars("angmsdaf;") :> <<"U+29AD">>))) @@
    (((Chars("angmsdag;") :> <<"U+29AE">>) @@
    (Chars("angmsdah;") :> <<"U+29AF">>)) @@
    ((Chars("angrt;") :> <<"U+221F">>) @@
    ((Chars("angrtvb;") :> <<"U+22BE">>) @@
    (Chars("angrtvbd;") :> <<"U+299D">>)))))) @@
    (((((Chars("angsph;") :> <<"U+2222">>) @@
    (Chars("angst;") :> <<"U+00C5">>)) @@
    ((Chars("angzarr;") :> <<"U+237C">>) @@
    (Chars("aogon;") :> <<"U+0105">>))) @@
    (((Chars("aopf;") :> <<"U+1D552">>) @@ (Chars("ap;") :> <<"U+2248">>)) @@
    ((Chars("apE;") :> <<"U+2A70">>) @@ ((Chars("apacir;") :> <<"U+2A6F">>) @@
    (Chars("ape;") :> <<"U+224A">>))))) @@
    ((((Chars("apid;") :> <<"U+224B">>) @@ (Chars("apos;") :> <<"'">>)) @@
    ((Chars("approx;") :> <<"U+2248">>) @@
    (Chars("approxeq;") :> <<"U+224A">>))) @@
    (((Chars("aring") :> <<"U+00E5">>) @@
    (Chars("aring;") :> <<"U+00E5">>)) @@
    ((Chars("ascr;") :> <<"U+1D4B6">>) @@ ((Chars("ast;") :> <<"*">>) @@
    (Chars("asymp;") :> <<"U+2248">>))))))))) @@
    ((((((((Chars("asympeq;") :> <<"U+224D">>) @@
    (Chars("atilde") :> <<"U+00E3">>)) @@
    ((Chars("atilde;") :> <<"U+00E3">>) @@
    (Chars("auml") :> <<"U+00E4">>))) @@ (((Chars("auml;") :> <<"U+00E4">>) @@
    (Chars("awconint;") :> <<"U+2233">>)) @@
    ((Chars("awint;") :> <<"U+2A11">>) @@
    (Chars("bNot;") :> <<"U+2AED">>)))) @@
    ((((Chars("backcong;") :> <<"U+224C">>) @@
    (Chars("backepsilon;") :> <<"U+03F6">>)) @@
    ((Chars("backprime;") :> <<"U+2035">>) @@
    (Chars("backsim;") :> <<"U+223D">>))) @@
    (((Chars("backsimeq;") :> <<"U+22CD">>) @@
    (Chars("barvee;") :> <<"U+22BD">>)) @@
    ((Chars("barwed;") :> <<"U+2305">>) @@
    ((Chars("barwedge;") :> <<"U+2305">>) @@
    (Chars("bbrk;") :> <<"U+23B5">>)))))) @@
    (((((Chars("bbrktbrk;") :> <<"U+23B6">>) @@
    (Chars("bcong;") :> <<"U+224C">>)) @@ ((Chars("bcy;") :> <<"U+0431">>) @@
    (Chars("bdquo;") :> <<"U+201E">>))) @@
    (((Chars("becaus;") :> <<"U+2235">>) @@
    (Chars("because;") :> <<"U+2235">>)) @@
    ((Chars("bemptyv;") :> <<"U+29B0">>) @@
    ((Chars("bepsi;") :> <<"U+03F6">>) @@
    (Chars("bernou;") :> <<"U+212C">>))))) @@
    ((((Chars("beta;") :> <<"U+03B2">>) @@
    (Chars("beth;") :> <<"U+2136">>)) @@
    ((Chars("between;") :> <<"U+226C">>) @@
    (Chars("bfr;") :> <<"U+1D51F">>))) @@
    (((Chars("bigcap;") :> <<"U+22C2">>) @@
    (Chars("bigcirc;") :> <<"U+25EF">>)) @@
    ((Chars("bigcup;") :> <<"U+22C3">>) @@
    ((Chars("bigodot;") :> <<"U+2A00">>) @@
    (Chars("bigoplus;") :> <<"U+2A01">>))))))) @@
    ((((((Chars("bigotimes;") :> <<"U+2A02">>) @@
    (Chars("bigsqcup;") :> <<"U+2A06">>)) @@
    ((Chars("bigstar;") :> <<"U+2605">>) @@
    (Chars("bigtriangledown;") :> <<"U+25BD">>))) @@
    (((Chars("bigtriangleup;") :> <<"U+25B3">>) @@
    (Chars("biguplus;") :> <<"U+2A04">>)) @@
    ((Chars("bigvee;") :> <<"U+22C1">>) @@
    (Chars("bigwedge;") :> <<"U+22C0">>)))) @@
    ((((Chars("bkarow;") :> <<"U+290D">>) @@
    (Chars("blacklozenge;") :> <<"U+29EB">>)) @@
    ((Chars("blacksquare;") :> <<"U+25AA">>) @@
    (Chars("blacktriangle;") :> <<"U+25B4">>))) @@
    (((Chars("blacktriangledown;") :> <<"U+25BE">>) @@
    (Chars("blacktriangleleft;") :> <<"U+25C2">>)) @@
    ((Chars("blacktriangleright;") :> <<"U+25B8">>) @@
    ((Chars("blank;") :> <<"U+2423">>) @@
    (Chars("blk12;") :> <<"U+2592">>)))))) @@
    (((((Chars("blk14;") :> <<"U+2591">>) @@
    (Chars("blk34;") :> <<"U+2593">>)) @@
    ((Chars("block;") :> <<"U+2588">>) @@
    (Chars("bne;") :> <<"=", "U+20E5">>))) @@
    (((Chars("bnequiv;") :> <<"U+2261", "U+20E5">>) @@
    (Chars("bnot;") :> <<"U+2310">>)) @@ ((Chars("bopf;") :> <<"U+1D553">>) @@
    ((Chars("bot;") :> <<"U+22A5">>) @@
    (Chars("bottom;") :> <<"U+22A5">>))))) @@
    ((((Chars("bowtie;") :> <<"U+22C8">>) @@
    (Chars("boxDL;") :> <<"U+2557">>)) @@
    ((Chars("boxDR;") :> <<"U+2554">>) @@
    (Chars("boxDl;") :> <<"U+2556">>))) @@
    (((Chars("boxDr;") :> <<"U+2553">>) @@
    (Chars("boxH;") :> <<"U+2550">>)) @@ ((Chars("boxHD;") :> <<"U+2566">>) @@
    ((Chars("boxHU;") :> <<"U+2569">>) @@
    (Chars("boxHd;") :> <<"U+2564">>)))))))) @@
    (((((((Chars("boxHu;") :> <<"U+2567">>) @@
    (Chars("boxUL;") :> <<"U+255D">>)) @@
    ((Chars("boxUR;") :> <<"U+255A">>) @@
    (Chars("boxUl;") :> <<"U+255C">>))) @@
    (((Chars("boxUr;") :> <<"U+2559">>) @@
    (Chars("boxV;") :> <<"U+2551">>)) @@ ((Chars("boxVH;") :> <<"U+256C">>) @@
    (Chars("boxVL;") :> <<"U+2563">>)))) @@
    ((((Chars("boxVR;") :> <<"U+2560">>) @@
    (Chars("boxVh;") :> <<"U+256B">>)) @@
    ((Chars("boxVl;") :> <<"U+2562">>) @@
    (Chars("boxVr;") :> <<"U+255F">>))) @@
    (((Chars("boxbox;") :> <<"U+29C9">>) @@
    (Chars("boxdL;") :> <<"U+2555">>)) @@
    ((Chars("boxdR;") :> <<"U+2552">>) @@
    ((Chars("boxdl;") :> <<"U+2510">>) @@
    (Chars("boxdr;") :> <<"U+250C">>)))))) @@
    (((((Chars("boxh;") :> <<"U+2500">>) @@
    (Chars("boxhD;") :> <<"U+2565">>)) @@
    ((Chars("boxhU;") :> <<"U+2568">>) @@
    (Chars("boxhd;") :> <<"U+252C">>))) @@
    (((Chars("boxhu;") :> <<"U+2534">>) @@
    (Chars("boxminus;") :> <<"U+229F">>)) @@
    ((Chars("boxplus;") :> <<"U+229E">>) @@
    ((Chars("boxtimes;") :> <<"U+22A0">>) @@
    (Chars("boxuL;") :> <<"U+255B">>))))) @@
    ((((Chars("boxuR;") :> <<"U+2558">>) @@
    (Chars("boxul;") :> <<"U+2518">>)) @@
    ((Chars("boxur;") :> <<"U+2514">>) @@
    (Chars("boxv;") :> <<"U+2502">>))) @@
    (((Chars("boxvH;") :> <<"U+256A">>) @@
    (Chars("boxvL;") :> <<"U+2561">>)) @@
    ((Chars("boxvR;") :> <<"U+255E">>) @@
    ((Chars("boxvh;") :> <<"U+253C">>) @@
    (Chars("boxvl;") :> <<"U+2524">>))))))) @@
    ((((((Chars("boxvr;") :> <<"U+251C">>) @@
    (Chars("bprime;") :> <<"U+2035">>)) @@
    ((Chars("breve;") :> <<"U+02D8">>) @@
    (Chars("brvbar") :> <<"U+00A6">>))) @@
    (((Chars("brvbar;") :> <<"U+00A6">>) @@
    (Chars("bscr;") :> <<"U+1D4B7">>)) @@
    ((Chars("bsemi;") :> <<"U+204F">>) @@
    (Chars("bsim;") :> <<"U+223D">>)))) @@
    ((((Chars("bsime;") :> <<"U+22CD">>) @@ (Chars("bsol;") :> <<"\\">>)) @@
    ((Chars("bsolb;") :> <<"U+29C5">>) @@
    (Chars("bsolhsub;") :> <<"U+27C8">>))) @@
    (((Chars("bull;") :> <<"U+2022">>) @@
    (Chars("bullet;") :> <<"U+2022">>)) @@
    ((Chars("bump;") :> <<"U+224E">>) @@ ((Chars("bumpE;") :> <<"U+2AAE">>) @@
    (Chars("bumpe;") :> <<"U+224F">>)))))) @@
    (((((Chars("bumpeq;") :> <<"U+224F">>) @@
    (Chars("cacute;") :> <<"U+0107">>)) @@ ((Chars("cap;") :> <<"U+2229">>) @@
    (Chars("capand;") :> <<"U+2A44">>))) @@
    (((Chars("capbrcup;") :> <<"U+2A49">>) @@
    (Chars("capcap;") :> <<"U+2A4B">>)) @@
    ((Chars("capcup;") :> <<"U+2A47">>) @@
    ((Chars("capdot;") :> <<"U+2A40">>) @@
    (Chars("caps;") :> <<"U+2229", "U+FE00">>))))) @@
    ((((Chars("caret;") :> <<"U+2041">>) @@
    (Chars("caron;") :> <<"U+02C7">>)) @@
    ((Chars("ccaps;") :> <<"U+2A4D">>) @@
    (Chars("ccaron;") :> <<"U+010D">>))) @@
    (((Chars("ccedil") :> <<"U+00E7">>) @@
    (Chars("ccedil;") :> <<"U+00E7">>)) @@
    ((Chars("ccirc;") :> <<"U+0109">>) @@
    ((Chars("ccups;") :> <<"U+2A4C">>) @@
    (Chars("ccupssm;") :> <<"U+2A50">>)))))))))) @@
    (((((((((Chars("cdot;") :> <<"U+010B">>) @@
    (Chars("cedil") :> <<"U+00B8">>)) @@ ((Chars("cedil;") :> <<"U+00B8">>) @@
    (Chars("cemptyv;") :> <<"U+29B2">>))) @@
    (((Chars("cent") :> <<"U+00A2">>) @@ (Chars("cent;") :> <<"U+00A2">>)) @@
    ((Chars("centerdot;") :> <<"U+00B7">>) @@
    (Chars("cfr;") :> <<"U+1D520">>)))) @@
    ((((Chars("chcy;") :> <<"U+0447">>) @@
    (Chars("check;") :> <<"U+2713">>)) @@
    ((Chars("checkmark;") :> <<"U+2713">>) @@
    (Chars("chi;") :> <<"U+03C7">>))) @@ (((Chars("cir;") :> <<"U+25CB">>) @@
    (Chars("cirE;") :> <<"U+29C3">>)) @@ ((Chars("circ;") :> <<"U+02C6">>) @@
    ((Chars("circeq;") :> <<"U+2257">>) @@
    (Chars("circlearrowleft;") :> <<"U+21BA">>)))))) @@
    (((((Chars("circlearrowright;") :> <<"U+21BB">>) @@
    (Chars("circledR;") :> <<"U+00AE">>)) @@
    ((Chars("circledS;") :> <<"U+24C8">>) @@
    (Chars("circledast;") :> <<"U+229B">>))) @@
    (((Chars("circledcirc;") :> <<"U+229A">>) @@
    (Chars("circleddash;") :> <<"U+229D">>)) @@
    ((Chars("cire;") :> <<"U+2257">>) @@
    (Chars("cirfnint;") :> <<"U+2A10">>)))) @@
    ((((Chars("cirmid;") :> <<"U+2AEF">>) @@
    (Chars("cirscir;") :> <<"U+29C2">>)) @@
    ((Chars("clubs;") :> <<"U+2663">>) @@
    (Chars("clubsuit;") :> <<"U+2663">>))) @@
    (((Chars("colon;") :> <<":">>) @@ (Chars("colone;") :> <<"U+2254">>)) @@
    ((Chars("coloneq;") :> <<"U+2254">>) @@ ((Chars("comma;") :> <<",">>) @@
    (Chars("commat;") :> <<"@">>))))))) @@
    ((((((Chars("comp;") :> <<"U+2201">>) @@
    (Chars("compfn;") :> <<"U+2218">>)) @@
    ((Chars("complement;") :> <<"U+2201">>) @@
    (Chars("complexes;") :> <<"U+2102">>))) @@
    (((Chars("cong;") :> <<"U+2245">>) @@
    (Chars("congdot;") :> <<"U+2A6D">>)) @@
    ((Chars("conint;") :> <<"U+222E">>) @@
    (Chars("copf;") :> <<"U+1D554">>)))) @@
    ((((Chars("coprod;") :> <<"U+2210">>) @@
    (Chars("copy") :> <<"U+00A9">>)) @@ ((Chars("copy;") :> <<"U+00A9">>) @@
    (Chars("copysr;") :> <<"U+2117">>))) @@
    (((Chars("crarr;") :> <<"U+21B5">>) @@
    (Chars("cross;") :> <<"U+2717">>)) @@
    ((Chars("cscr;") :> <<"U+1D4B8">>) @@ ((Chars("csub;") :> <<"U+2ACF">>) @@
    (Chars("csube;") :> <<"U+2AD1">>)))))) @@
    (((((Chars("csup;") :> <<"U+2AD0">>) @@
    (Chars("csupe;") :> <<"U+2AD2">>)) @@
    ((Chars("ctdot;") :> <<"U+22EF">>) @@
    (Chars("cudarrl;") :> <<"U+2938">>))) @@
    (((Chars("cudarrr;") :> <<"U+2935">>) @@
    (Chars("cuepr;") :> <<"U+22DE">>)) @@
    ((Chars("cuesc;") :> <<"U+22DF">>) @@
    ((Chars("cularr;") :> <<"U+21B6">>) @@
    (Chars("cularrp;") :> <<"U+293D">>))))) @@
    ((((Chars("cup;") :> <<"U+222A">>) @@
    (Chars("cupbrcap;") :> <<"U+2A48">>)) @@
    ((Chars("cupcap;") :> <<"U+2A46">>) @@
    (Chars("cupcup;") :> <<"U+2A4A">>))) @@
    (((Chars("cupdot;") :> <<"U+228D">>) @@
    (Chars("cupor;") :> <<"U+2A45">>)) @@
    ((Chars("cups;") :> <<"U+222A", "U+FE00">>) @@
    ((Chars("curarr;") :> <<"U+21B7">>) @@
    (Chars("curarrm;") :> <<"U+293C">>)))))))) @@
    (((((((Chars("curlyeqprec;") :> <<"U+22DE">>) @@
    (Chars("curlyeqsucc;") :> <<"U+22DF">>)) @@
    ((Chars("curlyvee;") :> <<"U+22CE">>) @@
    (Chars("curlywedge;") :> <<"U+22CF">>))) @@
    (((Chars("curren") :> <<"U+00A4">>) @@
    (Chars("curren;") :> <<"U+00A4">>)) @@
    ((Chars("curvearrowleft;") :> <<"U+21B6">>) @@
    (Chars("curvearrowright;") :> <<"U+21B7">>)))) @@
    ((((Chars("cuvee;") :> <<"U+22CE">>) @@
    (Chars("cuwed;") :> <<"U+22CF">>)) @@
    ((Chars("cwconint;") :> <<"U+2232">>) @@
    (Chars("cwint;") :> <<"U+2231">>))) @@
    (((Chars("cylcty;") :> <<"U+232D">>) @@
    (Chars("dArr;") :> <<"U+21D3">>)) @@ ((Chars("dHar;") :> <<"U+2965">>) @@
    ((Chars("dagger;") :> <<"U+2020">>) @@
    (Chars("daleth;") :> <<"U+2138">>)))))) @@
    (((((Chars("darr;") :> <<"U+2193">>) @@
    (Chars("dash;") :> <<"U+2010">>)) @@ ((Chars("dashv;") :> <<"U+22A3">>) @@
    (Chars("dbkarow;") :> <<"U+290F">>))) @@
    (((Chars("dblac;") :> <<"U+02DD">>) @@
    (Chars("dcaron;") :> <<"U+010F">>)) @@ ((Chars("dcy;") :> <<"U+0434">>) @@
    ((Chars("dd;") :> <<"U+2146">>) @@
    (Chars("ddagger;") :> <<"U+2021">>))))) @@
    ((((Chars("ddarr;") :> <<"U+21CA">>) @@
    (Chars("ddotseq;") :> <<"U+2A77">>)) @@ ((Chars("deg") :> <<"U+00B0">>) @@
    (Chars("deg;") :> <<"U+00B0">>))) @@
    (((Chars("delta;") :> <<"U+03B4">>) @@
    (Chars("demptyv;") :> <<"U+29B1">>)) @@
    ((Chars("dfisht;") :> <<"U+297F">>) @@
    ((Chars("dfr;") :> <<"U+1D521">>) @@
    (Chars("dharl;") :> <<"U+21C3">>))))))) @@
    ((((((Chars("dharr;") :> <<"U+21C2">>) @@
    (Chars("diam;") :> <<"U+22C4">>)) @@
    ((Chars("diamond;") :> <<"U+22C4">>) @@
    (Chars("diamondsuit;") :> <<"U+2666">>))) @@
    (((Chars("diams;") :> <<"U+2666">>) @@ (Chars("die;") :> <<"U+00A8">>)) @@
    ((Chars("digamma;") :> <<"U+03DD">>) @@
    (Chars("disin;") :> <<"U+22F2">>)))) @@
    ((((Chars("div;") :> <<"U+00F7">>) @@
    (Chars("divide") :> <<"U+00F7">>)) @@
    ((Chars("divide;") :> <<"U+00F7">>) @@
    (Chars("divideontimes;") :> <<"U+22C7">>))) @@
    (((Chars("divonx;") :> <<"U+22C7">>) @@
    (Chars("djcy;") :> <<"U+0452">>)) @@
    ((Chars("dlcorn;") :> <<"U+231E">>) @@
    ((Chars("dlcrop;") :> <<"U+230D">>) @@
    (Chars("dollar;") :> <<"$">>)))))) @@
    (((((Chars("dopf;") :> <<"U+1D555">>) @@
    (Chars("dot;") :> <<"U+02D9">>)) @@ ((Chars("doteq;") :> <<"U+2250">>) @@
    (Chars("doteqdot;") :> <<"U+2251">>))) @@
    (((Chars("dotminus;") :> <<"U+2238">>) @@
    (Chars("dotplus;") :> <<"U+2214">>)) @@
    ((Chars("dotsquare;") :> <<"U+22A1">>) @@
    ((Chars("doublebarwedge;") :> <<"U+2306">>) @@
    (Chars("downarrow;") :> <<"U+2193">>))))) @@
    ((((Chars("downdownarrows;") :> <<"U+21CA">>) @@
    (Chars("downharpoonleft;") :> <<"U+21C3">>)) @@
    ((Chars("downharpoonright;") :> <<"U+21C2">>) @@
    (Chars("drbkarow;") :> <<"U+2910">>))) @@
    (((Chars("drcorn;") :> <<"U+231F">>) @@
    (Chars("drcrop;") :> <<"U+230C">>)) @@
    ((Chars("dscr;") :> <<"U+1D4B9">>) @@ ((Chars("dscy;") :> <<"U+0455">>) @@
    (Chars("dsol;") :> <<"U+29F6">>))))))))) @@
    ((((((((Chars("dstrok;") :> <<"U+0111">>) @@
    (Chars("dtdot;") :> <<"U+22F1">>)) @@ ((Chars("dtri;") :> <<"U+25BF">>) @@
    (Chars("dtrif;") :> <<"U+25BE">>))) @@
    (((Chars("duarr;") :> <<"U+21F5">>) @@
    (Chars("duhar;") :> <<"U+296F">>)) @@
    ((Chars("dwangle;") :> <<"U+29A6">>) @@
    (Chars("dzcy;") :> <<"U+045F">>)))) @@
    ((((Chars("dzigrarr;") :> <<"U+27FF">>) @@
    (Chars("eDDot;") :> <<"U+2A77">>)) @@ ((Chars("eDot;") :> <<"U+2251">>) @@
    (Chars("eacute") :> <<"U+00E9">>))) @@
    (((Chars("eacute;") :> <<"U+00E9">>) @@
    (Chars("easter;") :> <<"U+2A6E">>)) @@
    ((Chars("ecaron;") :> <<"U+011B">>) @@
    ((Chars("ecir;") :> <<"U+2256">>) @@
    (Chars("ecirc") :> <<"U+00EA">>)))))) @@
    (((((Chars("ecirc;") :> <<"U+00EA">>) @@
    (Chars("ecolon;") :> <<"U+2255">>)) @@ ((Chars("ecy;") :> <<"U+044D">>) @@
    (Chars("edot;") :> <<"U+0117">>))) @@ (((Chars("ee;") :> <<"U+2147">>) @@
    (Chars("efDot;") :> <<"U+2252">>)) @@ ((Chars("efr;") :> <<"U+1D522">>) @@
    ((Chars("eg;") :> <<"U+2A9A">>) @@
    (Chars("egrave") :> <<"U+00E8">>))))) @@
    ((((Chars("egrave;") :> <<"U+00E8">>) @@
    (Chars("egs;") :> <<"U+2A96">>)) @@ ((Chars("egsdot;") :> <<"U+2A98">>) @@
    (Chars("el;") :> <<"U+2A99">>))) @@
    (((Chars("elinters;") :> <<"U+23E7">>) @@
    (Chars("ell;") :> <<"U+2113">>)) @@ ((Chars("els;") :> <<"U+2A95">>) @@
    ((Chars("elsdot;") :> <<"U+2A97">>) @@
    (Chars("emacr;") :> <<"U+0113">>))))))) @@
    ((((((Chars("empty;") :> <<"U+2205">>) @@
    (Chars("emptyset;") :> <<"U+2205">>)) @@
    ((Chars("emptyv;") :> <<"U+2205">>) @@
    (Chars("emsp13;") :> <<"U+2004">>))) @@
    (((Chars("emsp14;") :> <<"U+2005">>) @@
    (Chars("emsp;") :> <<"U+2003">>)) @@ ((Chars("eng;") :> <<"U+014B">>) @@
    (Chars("ensp;") :> <<"U+2002">>)))) @@
    ((((Chars("eogon;") :> <<"U+0119">>) @@
    (Chars("eopf;") :> <<"U+1D556">>)) @@ ((Chars("epar;") :> <<"U+22D5">>) @@
    (Chars("eparsl;") :> <<"U+29E3">>))) @@
    (((Chars("eplus;") :> <<"U+2A71">>) @@
    (Chars("epsi;") :> <<"U+03B5">>)) @@
    ((Chars("epsilon;") :> <<"U+03B5">>) @@
    ((Chars("epsiv;") :> <<"U+03F5">>) @@
    (Chars("eqcirc;") :> <<"U+2256">>)))))) @@
    (((((Chars("eqcolon;") :> <<"U+2255">>) @@
    (Chars("eqsim;") :> <<"U+2242">>)) @@
    ((Chars("eqslantgtr;") :> <<"U+2A96">>) @@
    (Chars("eqslantless;") :> <<"U+2A95">>))) @@
    (((Chars("equals;") :> <<"=">>) @@ (Chars("equest;") :> <<"U+225F">>)) @@
    ((Chars("equiv;") :> <<"U+2261">>) @@
    ((Chars("equivDD;") :> <<"U+2A78">>) @@
    (Chars("eqvparsl;") :> <<"U+29E5">>))))) @@
    ((((Chars("erDot;") :> <<"U+2253">>) @@
    (Chars("erarr;") :> <<"U+2971">>)) @@ ((Chars("escr;") :> <<"U+212F">>) @@
    (Chars("esdot;") :> <<"U+2250">>))) @@
    (((Chars("esim;") :> <<"U+2242">>) @@ (Chars("eta;") :> <<"U+03B7">>)) @@
    ((Chars("eth") :> <<"U+00F0">>) @@ ((Chars("eth;") :> <<"U+00F0">>) @@
    (Chars("euml") :> <<"U+00EB">>)))))))) @@
    (((((((Chars("euml;") :> <<"U+00EB">>) @@
    (Chars("euro;") :> <<"U+20AC">>)) @@ ((Chars("excl;") :> <<"!">>) @@
    (Chars("exist;") :> <<"U+2203">>))) @@
    (((Chars("expectation;") :> <<"U+2130">>) @@
    (Chars("exponentiale;") :> <<"U+2147">>)) @@
    ((Chars("fallingdotseq;") :> <<"U+2252">>) @@
    (Chars("fcy;") :> <<"U+0444">>)))) @@
    ((((Chars("female;") :> <<"U+2640">>) @@
    (Chars("ffilig;") :> <<"U+FB03">>)) @@
    ((Chars("fflig;") :> <<"U+FB00">>) @@
    (Chars("ffllig;") :> <<"U+FB04">>))) @@
    (((Chars("ffr;") :> <<"U+1D523">>) @@
    (Chars("filig;") :> <<"U+FB01">>)) @@
    ((Chars("fjlig;") :> <<"f", "j">>) @@ ((Chars("flat;") :> <<"U+266D">>) @@
    (Chars("fllig;") :> <<"U+FB02">>)))))) @@
    (((((Chars("fltns;") :> <<"U+25B1">>) @@
    (Chars("fnof;") :> <<"U+0192">>)) @@ ((Chars("fopf;") :> <<"U+1D557">>) @@
    (Chars("forall;") :> <<"U+2200">>))) @@
    (((Chars("fork;") :> <<"U+22D4">>) @@
    (Chars("forkv;") :> <<"U+2AD9">>)) @@
    ((Chars("fpartint;") :> <<"U+2A0D">>) @@
    ((Chars("frac12") :> <<"U+00BD">>) @@
    (Chars("frac12;") :> <<"U+00BD">>))))) @@
    ((((Chars("frac13;") :> <<"U+2153">>) @@
    (Chars("frac14") :> <<"U+00BC">>)) @@
    ((Chars("frac14;") :> <<"U+00BC">>) @@
    (Chars("frac15;") :> <<"U+2155">>))) @@
    (((Chars("frac16;") :> <<"U+2159">>) @@
    (Chars("frac18;") :> <<"U+215B">>)) @@
    ((Chars("frac23;") :> <<"U+2154">>) @@
    ((Chars("frac25;") :> <<"U+2156">>) @@
    (Chars("frac34") :> <<"U+00BE">>))))))) @@
    ((((((Chars("frac34;") :> <<"U+00BE">>) @@
    (Chars("frac35;") :> <<"U+2157">>)) @@
    ((Chars("frac38;") :> <<"U+215C">>) @@
    (Chars("frac45;") :> <<"U+2158">>))) @@
    (((Chars("frac56;") :> <<"U+215A">>) @@
    (Chars("frac58;") :> <<"U+215D">>)) @@
    ((Chars("frac78;") :> <<"U+215E">>) @@
    (Chars("frasl;") :> <<"U+2044">>)))) @@
    ((((Chars("frown;") :> <<"U+2322">>) @@
    (Chars("fscr;") :> <<"U+1D4BB">>)) @@ ((Chars("gE;") :> <<"U+2267">>) @@
    (Chars("gEl;") :> <<"U+2A8C">>))) @@
    (((Chars("gacute;") :> <<"U+01F5">>) @@
    (Chars("gamma;") :> <<"U+03B3">>)) @@
    ((Chars("gammad;") :> <<"U+03DD">>) @@ ((Chars("gap;") :> <<"U+2A86">>) @@
    (Chars("gbreve;") :> <<"U+011F">>)))))) @@
    (((((Chars("gcirc;") :> <<"U+011D">>) @@
    (Chars("gcy;") :> <<"U+0433">>)) @@ ((Chars("gdot;") :> <<"U+0121">>) @@
    (Chars("ge;") :> <<"U+2265">>))) @@ (((Chars("gel;") :> <<"U+22DB">>) @@
    (Chars("geq;") :> <<"U+2265">>)) @@ ((Chars("geqq;") :> <<"U+2267">>) @@
    ((Chars("geqslant;") :> <<"U+2A7E">>) @@
    (Chars("ges;") :> <<"U+2A7E">>))))) @@
    ((((Chars("gescc;") :> <<"U+2AA9">>) @@
    (Chars("gesdot;") :> <<"U+2A80">>)) @@
    ((Chars("gesdoto;") :> <<"U+2A82">>) @@
    (Chars("gesdotol;") :> <<"U+2A84">>))) @@
    (((Chars("gesl;") :> <<"U+22DB", "U+FE00">>) @@
    (Chars("gesles;") :> <<"U+2A94">>)) @@
    ((Chars("gfr;") :> <<"U+1D524">>) @@ ((Chars("gg;") :> <<"U+226B">>) @@
    (Chars("ggg;") :> <<"U+22D9">>)))))))))))) @@
    (((((((((((Chars("gimel;") :> <<"U+2137">>) @@
    (Chars("gjcy;") :> <<"U+0453">>)) @@ ((Chars("gl;") :> <<"U+2277">>) @@
    (Chars("glE;") :> <<"U+2A92">>))) @@ (((Chars("gla;") :> <<"U+2AA5">>) @@
    (Chars("glj;") :> <<"U+2AA4">>)) @@ ((Chars("gnE;") :> <<"U+2269">>) @@
    (Chars("gnap;") :> <<"U+2A8A">>)))) @@
    ((((Chars("gnapprox;") :> <<"U+2A8A">>) @@
    (Chars("gne;") :> <<"U+2A88">>)) @@ ((Chars("gneq;") :> <<"U+2A88">>) @@
    (Chars("gneqq;") :> <<"U+2269">>))) @@
    (((Chars("gnsim;") :> <<"U+22E7">>) @@
    (Chars("gopf;") :> <<"U+1D558">>)) @@
    ((Chars("grave;") :> <<"U+0060">>) @@ ((Chars("gscr;") :> <<"U+210A">>) @@
    (Chars("gsim;") :> <<"U+2273">>)))))) @@
    (((((Chars("gsime;") :> <<"U+2A8E">>) @@
    (Chars("gsiml;") :> <<"U+2A90">>)) @@ ((Chars("gt") :> <<">">>) @@
    (Chars("gt;") :> <<">">>))) @@ (((Chars("gtcc;") :> <<"U+2AA7">>) @@
    (Chars("gtcir;") :> <<"U+2A7A">>)) @@
    ((Chars("gtdot;") :> <<"U+22D7">>) @@
    (Chars("gtlPar;") :> <<"U+2995">>)))) @@
    ((((Chars("gtquest;") :> <<"U+2A7C">>) @@
    (Chars("gtrapprox;") :> <<"U+2A86">>)) @@
    ((Chars("gtrarr;") :> <<"U+2978">>) @@
    (Chars("gtrdot;") :> <<"U+22D7">>))) @@
    (((Chars("gtreqless;") :> <<"U+22DB">>) @@
    (Chars("gtreqqless;") :> <<"U+2A8C">>)) @@
    ((Chars("gtrless;") :> <<"U+2277">>) @@
    ((Chars("gtrsim;") :> <<"U+2273">>) @@
    (Chars("gvertneqq;") :> <<"U+2269", "U+FE00">>))))))) @@
    ((((((Chars("gvnE;") :> <<"U+2269", "U+FE00">>) @@
    (Chars("hArr;") :> <<"U+21D4">>)) @@
    ((Chars("hairsp;") :> <<"U+200A">>) @@
    (Chars("half;") :> <<"U+00BD">>))) @@
    (((Chars("hamilt;") :> <<"U+210B">>) @@
    (Chars("hardcy;") :> <<"U+044A">>)) @@
    ((Chars("harr;") :> <<"U+2194">>) @@
    (Chars("harrcir;") :> <<"U+2948">>)))) @@
    ((((Chars("harrw;") :> <<"U+21AD">>) @@
    (Chars("hbar;") :> <<"U+210F">>)) @@ ((Chars("hcirc;") :> <<"U+0125">>) @@
    (Chars("hearts;") :> <<"U+2665">>))) @@
    (((Chars("heartsuit;") :> <<"U+2665">>) @@
    (Chars("hellip;") :> <<"U+2026">>)) @@
    ((Chars("hercon;") :> <<"U+22B9">>) @@
    ((Chars("hfr;") :> <<"U+1D525">>) @@
    (Chars("hksearow;") :> <<"U+2925">>)))))) @@
    (((((Chars("hkswarow;") :> <<"U+2926">>) @@
    (Chars("hoarr;") :> <<"U+21FF">>)) @@
    ((Chars("homtht;") :> <<"U+223B">>) @@
    (Chars("hookleftarrow;") :> <<"U+21A9">>))) @@
    (((Chars("hookrightarrow;") :> <<"U+21AA">>) @@
    (Chars("hopf;") :> <<"U+1D559">>)) @@
    ((Chars("horbar;") :> <<"U+2015">>) @@
    ((Chars("hscr;") :> <<"U+1D4BD">>) @@
    (Chars("hslash;") :> <<"U+210F">>))))) @@
    ((((Chars("hstrok;") :> <<"U+0127">>) @@
    (Chars("hybull;") :> <<"U+2043">>)) @@
    ((Chars("hyphen;") :> <<"U+2010">>) @@
    (Chars("iacute") :> <<"U+00ED">>))) @@
    (((Chars("iacute;") :> <<"U+00ED">>) @@ (Chars("ic;") :> <<"U+2063">>)) @@
    ((Chars("icirc") :> <<"U+00EE">>) @@ ((Chars("icirc;") :> <<"U+00EE">>) @@
    (Chars("icy;") :> <<"U+0438">>)))))))) @@
    (((((((Chars("iecy;") :> <<"U+0435">>) @@
    (Chars("iexcl") :> <<"U+00A1">>)) @@ ((Chars("iexcl;") :> <<"U+00A1">>) @@
    (Chars("iff;") :> <<"U+21D4">>))) @@ (((Chars("ifr;") :> <<"U+1D526">>) @@
    (Chars("igrave") :> <<"U+00EC">>)) @@
    ((Chars("igrave;") :> <<"U+00EC">>) @@
    (Chars("ii;") :> <<"U+2148">>)))) @@
    ((((Chars("iiiint;") :> <<"U+2A0C">>) @@
    (Chars("iiint;") :> <<"U+222D">>)) @@
    ((Chars("iinfin;") :> <<"U+29DC">>) @@
    (Chars("iiota;") :> <<"U+2129">>))) @@
    (((Chars("ijlig;") :> <<"U+0133">>) @@
    (Chars("imacr;") :> <<"U+012B">>)) @@
    ((Chars("image;") :> <<"U+2111">>) @@
    ((Chars("imagline;") :> <<"U+2110">>) @@
    (Chars("imagpart;") :> <<"U+2111">>)))))) @@
    (((((Chars("imath;") :> <<"U+0131">>) @@
    (Chars("imof;") :> <<"U+22B7">>)) @@ ((Chars("imped;") :> <<"U+01B5">>) @@
    (Chars("in;") :> <<"U+2208">>))) @@
    (((Chars("incare;") :> <<"U+2105">>) @@
    (Chars("infin;") :> <<"U+221E">>)) @@
    ((Chars("infintie;") :> <<"U+29DD">>) @@
    ((Chars("inodot;") :> <<"U+0131">>) @@
    (Chars("int;") :> <<"U+222B">>))))) @@
    ((((Chars("intcal;") :> <<"U+22BA">>) @@
    (Chars("integers;") :> <<"U+2124">>)) @@
    ((Chars("intercal;") :> <<"U+22BA">>) @@
    (Chars("intlarhk;") :> <<"U+2A17">>))) @@
    (((Chars("intprod;") :> <<"U+2A3C">>) @@
    (Chars("iocy;") :> <<"U+0451">>)) @@ ((Chars("iogon;") :> <<"U+012F">>) @@
    ((Chars("iopf;") :> <<"U+1D55A">>) @@
    (Chars("iota;") :> <<"U+03B9">>))))))) @@
    ((((((Chars("iprod;") :> <<"U+2A3C">>) @@
    (Chars("iquest") :> <<"U+00BF">>)) @@
    ((Chars("iquest;") :> <<"U+00BF">>) @@
    (Chars("iscr;") :> <<"U+1D4BE">>))) @@
    (((Chars("isin;") :> <<"U+2208">>) @@
    (Chars("isinE;") :> <<"U+22F9">>)) @@
    ((Chars("isindot;") :> <<"U+22F5">>) @@
    (Chars("isins;") :> <<"U+22F4">>)))) @@
    ((((Chars("isinsv;") :> <<"U+22F3">>) @@
    (Chars("isinv;") :> <<"U+2208">>)) @@ ((Chars("it;") :> <<"U+2062">>) @@
    (Chars("itilde;") :> <<"U+0129">>))) @@
    (((Chars("iukcy;") :> <<"U+0456">>) @@ (Chars("iuml") :> <<"U+00EF">>)) @@
    ((Chars("iuml;") :> <<"U+00EF">>) @@ ((Chars("jcirc;") :> <<"U+0135">>) @@
    (Chars("jcy;") :> <<"U+0439">>)))))) @@
    (((((Chars("jfr;") :> <<"U+1D527">>) @@
    (Chars("jmath;") :> <<"U+0237">>)) @@
    ((Chars("jopf;") :> <<"U+1D55B">>) @@
    (Chars("jscr;") :> <<"U+1D4BF">>))) @@
    (((Chars("jsercy;") :> <<"U+0458">>) @@
    (Chars("jukcy;") :> <<"U+0454">>)) @@
    ((Chars("kappa;") :> <<"U+03BA">>) @@
    ((Chars("kappav;") :> <<"U+03F0">>) @@
    (Chars("kcedil;") :> <<"U+0137">>))))) @@
    ((((Chars("kcy;") :> <<"U+043A">>) @@ (Chars("kfr;") :> <<"U+1D528">>)) @@
    ((Chars("kgreen;") :> <<"U+0138">>) @@
    (Chars("khcy;") :> <<"U+0445">>))) @@
    (((Chars("kjcy;") :> <<"U+045C">>) @@
    (Chars("kopf;") :> <<"U+1D55C">>)) @@
    ((Chars("kscr;") :> <<"U+1D4C0">>) @@
    ((Chars("lAarr;") :> <<"U+21DA">>) @@
    (Chars("lArr;") :> <<"U+21D0">>))))))))) @@
    ((((((((Chars("lAtail;") :> <<"U+291B">>) @@
    (Chars("lBarr;") :> <<"U+290E">>)) @@ ((Chars("lE;") :> <<"U+2266">>) @@
    (Chars("lEg;") :> <<"U+2A8B">>))) @@ (((Chars("lHar;") :> <<"U+2962">>) @@
    (Chars("lacute;") :> <<"U+013A">>)) @@
    ((Chars("laemptyv;") :> <<"U+29B4">>) @@
    (Chars("lagran;") :> <<"U+2112">>)))) @@
    ((((Chars("lambda;") :> <<"U+03BB">>) @@
    (Chars("lang;") :> <<"U+27E8">>)) @@ ((Chars("langd;") :> <<"U+2991">>) @@
    (Chars("langle;") :> <<"U+27E8">>))) @@
    (((Chars("lap;") :> <<"U+2A85">>) @@ (Chars("laquo") :> <<"U+00AB">>)) @@
    ((Chars("laquo;") :> <<"U+00AB">>) @@ ((Chars("larr;") :> <<"U+2190">>) @@
    (Chars("larrb;") :> <<"U+21E4">>)))))) @@
    (((((Chars("larrbfs;") :> <<"U+291F">>) @@
    (Chars("larrfs;") :> <<"U+291D">>)) @@
    ((Chars("larrhk;") :> <<"U+21A9">>) @@
    (Chars("larrlp;") :> <<"U+21AB">>))) @@
    (((Chars("larrpl;") :> <<"U+2939">>) @@
    (Chars("larrsim;") :> <<"U+2973">>)) @@
    ((Chars("larrtl;") :> <<"U+21A2">>) @@ ((Chars("lat;") :> <<"U+2AAB">>) @@
    (Chars("latail;") :> <<"U+2919">>))))) @@
    ((((Chars("late;") :> <<"U+2AAD">>) @@
    (Chars("lates;") :> <<"U+2AAD", "U+FE00">>)) @@
    ((Chars("lbarr;") :> <<"U+290C">>) @@
    (Chars("lbbrk;") :> <<"U+2772">>))) @@ (((Chars("lbrace;") :> <<"{">>) @@
    (Chars("lbrack;") :> <<"[">>)) @@ ((Chars("lbrke;") :> <<"U+298B">>) @@
    ((Chars("lbrksld;") :> <<"U+298F">>) @@
    (Chars("lbrkslu;") :> <<"U+298D">>))))))) @@
    ((((((Chars("lcaron;") :> <<"U+013E">>) @@
    (Chars("lcedil;") :> <<"U+013C">>)) @@
    ((Chars("lceil;") :> <<"U+2308">>) @@ (Chars("lcub;") :> <<"{">>))) @@
    (((Chars("lcy;") :> <<"U+043B">>) @@ (Chars("ldca;") :> <<"U+2936">>)) @@
    ((Chars("ldquo;") :> <<"U+201C">>) @@
    (Chars("ldquor;") :> <<"U+201E">>)))) @@
    ((((Chars("ldrdhar;") :> <<"U+2967">>) @@
    (Chars("ldrushar;") :> <<"U+294B">>)) @@
    ((Chars("ldsh;") :> <<"U+21B2">>) @@ (Chars("le;") :> <<"U+2264">>))) @@
    (((Chars("leftarrow;") :> <<"U+2190">>) @@
    (Chars("leftarrowtail;") :> <<"U+21A2">>)) @@
    ((Chars("leftharpoondown;") :> <<"U+21BD">>) @@
    ((Chars("leftharpoonup;") :> <<"U+21BC">>) @@
    (Chars("leftleftarrows;") :> <<"U+21C7">>)))))) @@
    (((((Chars("leftrightarrow;") :> <<"U+2194">>) @@
    (Chars("leftrightarrows;") :> <<"U+21C6">>)) @@
    ((Chars("leftrightharpoons;") :> <<"U+21CB">>) @@
    (Chars("leftrightsquigarrow;") :> <<"U+21AD">>))) @@
    (((Chars("leftthreetimes;") :> <<"U+22CB">>) @@
    (Chars("leg;") :> <<"U+22DA">>)) @@ ((Chars("leq;") :> <<"U+2264">>) @@
    ((Chars("leqq;") :> <<"U+2266">>) @@
    (Chars("leqslant;") :> <<"U+2A7D">>))))) @@
    ((((Chars("les;") :> <<"U+2A7D">>) @@
    (Chars("lescc;") :> <<"U+2AA8">>)) @@
    ((Chars("lesdot;") :> <<"U+2A7F">>) @@
    (Chars("lesdoto;") :> <<"U+2A81">>))) @@
    (((Chars("lesdotor;") :> <<"U+2A83">>) @@
    (Chars("lesg;") :> <<"U+22DA", "U+FE00">>)) @@
    ((Chars("lesges;") :> <<"U+2A93">>) @@
    ((Chars("lessapprox;") :> <<"U+2A85">>) @@
    (Chars("lessdot;") :> <<"U+22D6">>)))))))) @@
    (((((((Chars("lesseqgtr;") :> <<"U+22DA">>) @@
    (Chars("lesseqqgtr;") :> <<"U+2A8B">>)) @@
    ((Chars("lessgtr;") :> <<"U+2276">>) @@
    (Chars("lesssim;") :> <<"U+2272">>))) @@
    (((Chars("lfisht;") :> <<"U+297C">>) @@
    (Chars("lfloor;") :> <<"U+230A">>)) @@
    ((Chars("lfr;") :> <<"U+1D529">>) @@ (Chars("lg;") :> <<"U+2276">>)))) @@
    ((((Chars("lgE;") :> <<"U+2A91">>) @@
    (Chars("lhard;") :> <<"U+21BD">>)) @@
    ((Chars("lharu;") :> <<"U+21BC">>) @@
    (Chars("lharul;") :> <<"U+296A">>))) @@
    (((Chars("lhblk;") :> <<"U+2584">>) @@
    (Chars("ljcy;") :> <<"U+0459">>)) @@ ((Chars("ll;") :> <<"U+226A">>) @@
    ((Chars("llarr;") :> <<"U+21C7">>) @@
    (Chars("llcorner;") :> <<"U+231E">>)))))) @@
    (((((Chars("llhard;") :> <<"U+296B">>) @@
    (Chars("lltri;") :> <<"U+25FA">>)) @@
    ((Chars("lmidot;") :> <<"U+0140">>) @@
    (Chars("lmoust;") :> <<"U+23B0">>))) @@
    (((Chars("lmoustache;") :> <<"U+23B0">>) @@
    (Chars("lnE;") :> <<"U+2268">>)) @@ ((Chars("lnap;") :> <<"U+2A89">>) @@
    ((Chars("lnapprox;") :> <<"U+2A89">>) @@
    (Chars("lne;") :> <<"U+2A87">>))))) @@
    ((((Chars("lneq;") :> <<"U+2A87">>) @@
    (Chars("lneqq;") :> <<"U+2268">>)) @@
    ((Chars("lnsim;") :> <<"U+22E6">>) @@
    (Chars("loang;") :> <<"U+27EC">>))) @@
    (((Chars("loarr;") :> <<"U+21FD">>) @@
    (Chars("lobrk;") :> <<"U+27E6">>)) @@
    ((Chars("longleftarrow;") :> <<"U+27F5">>) @@
    ((Chars("longleftrightarrow;") :> <<"U+27F7">>) @@
    (Chars("longmapsto;") :> <<"U+27FC">>))))))) @@
    ((((((Chars("longrightarrow;") :> <<"U+27F6">>) @@
    (Chars("looparrowleft;") :> <<"U+21AB">>)) @@
    ((Chars("looparrowright;") :> <<"U+21AC">>) @@
    (Chars("lopar;") :> <<"U+2985">>))) @@
    (((Chars("lopf;") :> <<"U+1D55D">>) @@
    (Chars("loplus;") :> <<"U+2A2D">>)) @@
    ((Chars("lotimes;") :> <<"U+2A34">>) @@
    (Chars("lowast;") :> <<"U+2217">>)))) @@
    ((((Chars("lowbar;") :> <<"_">>) @@ (Chars("loz;") :> <<"U+25CA">>)) @@
    ((Chars("lozenge;") :> <<"U+25CA">>) @@
    (Chars("lozf;") :> <<"U+29EB">>))) @@ (((Chars("lpar;") :> <<"(">>) @@
    (Chars("lparlt;") :> <<"U+2993">>)) @@
    ((Chars("lrarr;") :> <<"U+21C6">>) @@
    ((Chars("lrcorner;") :> <<"U+231F">>) @@
    (Chars("lrhar;") :> <<"U+21CB">>)))))) @@
    (((((Chars("lrhard;") :> <<"U+296D">>) @@
    (Chars("lrm;") :> <<"U+200E">>)) @@ ((Chars("lrtri;") :> <<"U+22BF">>) @@
    (Chars("lsaquo;") :> <<"U+2039">>))) @@
    (((Chars("lscr;") :> <<"U+1D4C1">>) @@ (Chars("lsh;") :> <<"U+21B0">>)) @@
    ((Chars("lsim;") :> <<"U+2272">>) @@ ((Chars("lsime;") :> <<"U+2A8D">>) @@
    (Chars("lsimg;") :> <<"U+2A8F">>))))) @@ ((((Chars("lsqb;") :> <<"[">>) @@
    (Chars("lsquo;") :> <<"U+2018">>)) @@
    ((Chars("lsquor;") :> <<"U+201A">>) @@
    (Chars("lstrok;") :> <<"U+0142">>))) @@ (((Chars("lt") :> <<"<">>) @@
    (Chars("lt;") :> <<"<">>)) @@ ((Chars("ltcc;") :> <<"U+2AA6">>) @@
    ((Chars("ltcir;") :> <<"U+2A79">>) @@
    (Chars("ltdot;") :> <<"U+22D6">>)))))))))) @@
    (((((((((Chars("lthree;") :> <<"U+22CB">>) @@
    (Chars("ltimes;") :> <<"U+22C9">>)) @@
    ((Chars("ltlarr;") :> <<"U+2976">>) @@
    (Chars("ltquest;") :> <<"U+2A7B">>))) @@
    (((Chars("ltrPar;") :> <<"U+2996">>) @@
    (Chars("ltri;") :> <<"U+25C3">>)) @@ ((Chars("ltrie;") :> <<"U+22B4">>) @@
    (Chars("ltrif;") :> <<"U+25C2">>)))) @@
    ((((Chars("lurdshar;") :> <<"U+294A">>) @@
    (Chars("luruhar;") :> <<"U+2966">>)) @@
    ((Chars("lvertneqq;") :> <<"U+2268", "U+FE00">>) @@
    (Chars("lvnE;") :> <<"U+2268", "U+FE00">>))) @@
    (((Chars("mDDot;") :> <<"U+223A">>) @@ (Chars("macr") :> <<"U+00AF">>)) @@
    ((Chars("macr;") :> <<"U+00AF">>) @@ ((Chars("male;") :> <<"U+2642">>) @@
    (Chars("malt;") :> <<"U+2720">>)))))) @@
    (((((Chars("maltese;") :> <<"U+2720">>) @@
    (Chars("map;") :> <<"U+21A6">>)) @@ ((Chars("mapsto;") :> <<"U+21A6">>) @@
    (Chars("mapstodown;") :> <<"U+21A7">>))) @@
    (((Chars("mapstoleft;") :> <<"U+21A4">>) @@
    (Chars("mapstoup;") :> <<"U+21A5">>)) @@
    ((Chars("marker;") :> <<"U+25AE">>) @@
    (Chars("mcomma;") :> <<"U+2A29">>)))) @@
    ((((Chars("mcy;") :> <<"U+043C">>) @@
    (Chars("mdash;") :> <<"U+2014">>)) @@
    ((Chars("measuredangle;") :> <<"U+2221">>) @@
    (Chars("mfr;") :> <<"U+1D52A">>))) @@ (((Chars("mho;") :> <<"U+2127">>) @@
    (Chars("micro") :> <<"U+00B5">>)) @@ ((Chars("micro;") :> <<"U+00B5">>) @@
    ((Chars("mid;") :> <<"U+2223">>) @@ (Chars("midast;") :> <<"*">>))))))) @@
    ((((((Chars("midcir;") :> <<"U+2AF0">>) @@
    (Chars("middot") :> <<"U+00B7">>)) @@
    ((Chars("middot;") :> <<"U+00B7">>) @@
    (Chars("minus;") :> <<"U+2212">>))) @@
    (((Chars("minusb;") :> <<"U+229F">>) @@
    (Chars("minusd;") :> <<"U+2238">>)) @@
    ((Chars("minusdu;") :> <<"U+2A2A">>) @@
    (Chars("mlcp;") :> <<"U+2ADB">>)))) @@
    ((((Chars("mldr;") :> <<"U+2026">>) @@
    (Chars("mnplus;") :> <<"U+2213">>)) @@
    ((Chars("models;") :> <<"U+22A7">>) @@
    (Chars("mopf;") :> <<"U+1D55E">>))) @@ (((Chars("mp;") :> <<"U+2213">>) @@
    (Chars("mscr;") :> <<"U+1D4C2">>)) @@
    ((Chars("mstpos;") :> <<"U+223E">>) @@ ((Chars("mu;") :> <<"U+03BC">>) @@
    (Chars("multimap;") :> <<"U+22B8">>)))))) @@
    (((((Chars("mumap;") :> <<"U+22B8">>) @@
    (Chars("nGg;") :> <<"U+22D9", "U+0338">>)) @@
    ((Chars("nGt;") :> <<"U+226B", "U+20D2">>) @@
    (Chars("nGtv;") :> <<"U+226B", "U+0338">>))) @@
    (((Chars("nLeftarrow;") :> <<"U+21CD">>) @@
    (Chars("nLeftrightarrow;") :> <<"U+21CE">>)) @@
    ((Chars("nLl;") :> <<"U+22D8", "U+0338">>) @@
    ((Chars("nLt;") :> <<"U+226A", "U+20D2">>) @@
    (Chars("nLtv;") :> <<"U+226A", "U+0338">>))))) @@
    ((((Chars("nRightarrow;") :> <<"U+21CF">>) @@
    (Chars("nVDash;") :> <<"U+22AF">>)) @@
    ((Chars("nVdash;") :> <<"U+22AE">>) @@
    (Chars("nabla;") :> <<"U+2207">>))) @@
    (((Chars("nacute;") :> <<"U+0144">>) @@
    (Chars("nang;") :> <<"U+2220", "U+20D2">>)) @@
    ((Chars("nap;") :> <<"U+2249">>) @@
    ((Chars("napE;") :> <<"U+2A70", "U+0338">>) @@
    (Chars("napid;") :> <<"U+224B", "U+0338">>)))))))) @@
    (((((((Chars("napos;") :> <<"U+0149">>) @@
    (Chars("napprox;") :> <<"U+2249">>)) @@
    ((Chars("natur;") :> <<"U+266E">>) @@
    (Chars("natural;") :> <<"U+266E">>))) @@
    (((Chars("naturals;") :> <<"U+2115">>) @@
    (Chars("nbsp") :> <<"U+00A0">>)) @@ ((Chars("nbsp;") :> <<"U+00A0">>) @@
    (Chars("nbump;") :> <<"U+224E", "U+0338">>)))) @@
    ((((Chars("nbumpe;") :> <<"U+224F", "U+0338">>) @@
    (Chars("ncap;") :> <<"U+2A43">>)) @@
    ((Chars("ncaron;") :> <<"U+0148">>) @@
    (Chars("ncedil;") :> <<"U+0146">>))) @@
    (((Chars("ncong;") :> <<"U+2247">>) @@
    (Chars("ncongdot;") :> <<"U+2A6D", "U+0338">>)) @@
    ((Chars("ncup;") :> <<"U+2A42">>) @@ ((Chars("ncy;") :> <<"U+043D">>) @@
    (Chars("ndash;") :> <<"U+2013">>)))))) @@
    (((((Chars("ne;") :> <<"U+2260">>) @@
    (Chars("neArr;") :> <<"U+21D7">>)) @@
    ((Chars("nearhk;") :> <<"U+2924">>) @@
    (Chars("nearr;") :> <<"U+2197">>))) @@
    (((Chars("nearrow;") :> <<"U+2197">>) @@
    (Chars("nedot;") :> <<"U+2250", "U+0338">>)) @@
    ((Chars("nequiv;") :> <<"U+2262">>) @@
    ((Chars("nesear;") :> <<"U+2928">>) @@
    (Chars("nesim;") :> <<"U+2242", "U+0338">>))))) @@
    ((((Chars("nexist;") :> <<"U+2204">>) @@
    (Chars("nexists;") :> <<"U+2204">>)) @@
    ((Chars("nfr;") :> <<"U+1D52B">>) @@
    (Chars("ngE;") :> <<"U+2267", "U+0338">>))) @@
    (((Chars("nge;") :> <<"U+2271">>) @@ (Chars("ngeq;") :> <<"U+2271">>)) @@
    ((Chars("ngeqq;") :> <<"U+2267", "U+0338">>) @@
    ((Chars("ngeqslant;") :> <<"U+2A7E", "U+0338">>) @@
    (Chars("nges;") :> <<"U+2A7E", "U+0338">>))))))) @@
    ((((((Chars("ngsim;") :> <<"U+2275">>) @@
    (Chars("ngt;") :> <<"U+226F">>)) @@ ((Chars("ngtr;") :> <<"U+226F">>) @@
    (Chars("nhArr;") :> <<"U+21CE">>))) @@
    (((Chars("nharr;") :> <<"U+21AE">>) @@
    (Chars("nhpar;") :> <<"U+2AF2">>)) @@ ((Chars("ni;") :> <<"U+220B">>) @@
    (Chars("nis;") :> <<"U+22FC">>)))) @@
    ((((Chars("nisd;") :> <<"U+22FA">>) @@ (Chars("niv;") :> <<"U+220B">>)) @@
    ((Chars("njcy;") :> <<"U+045A">>) @@
    (Chars("nlArr;") :> <<"U+21CD">>))) @@
    (((Chars("nlE;") :> <<"U+2266", "U+0338">>) @@
    (Chars("nlarr;") :> <<"U+219A">>)) @@ ((Chars("nldr;") :> <<"U+2025">>) @@
    ((Chars("nle;") :> <<"U+2270">>) @@
    (Chars("nleftarrow;") :> <<"U+219A">>)))))) @@
    (((((Chars("nleftrightarrow;") :> <<"U+21AE">>) @@
    (Chars("nleq;") :> <<"U+2270">>)) @@
    ((Chars("nleqq;") :> <<"U+2266", "U+0338">>) @@
    (Chars("nleqslant;") :> <<"U+2A7D", "U+0338">>))) @@
    (((Chars("nles;") :> <<"U+2A7D", "U+0338">>) @@
    (Chars("nless;") :> <<"U+226E">>)) @@
    ((Chars("nlsim;") :> <<"U+2274">>) @@ ((Chars("nlt;") :> <<"U+226E">>) @@
    (Chars("nltri;") :> <<"U+22EA">>))))) @@
    ((((Chars("nltrie;") :> <<"U+22EC">>) @@
    (Chars("nmid;") :> <<"U+2224">>)) @@ ((Chars("nopf;") :> <<"U+1D55F">>) @@
    (Chars("not") :> <<"U+00AC">>))) @@ (((Chars("not;") :> <<"U+00AC">>) @@
    (Chars("notin;") :> <<"U+2209">>)) @@
    ((Chars("notinE;") :> <<"U+22F9", "U+0338">>) @@
    ((Chars("notindot;") :> <<"U+22F5", "U+0338">>) @@
    (Chars("notinva;") :> <<"U+2209">>))))))))) @@
    ((((((((Chars("notinvb;") :> <<"U+22F7">>) @@
    (Chars("notinvc;") :> <<"U+22F6">>)) @@
    ((Chars("notni;") :> <<"U+220C">>) @@
    (Chars("notniva;") :> <<"U+220C">>))) @@
    (((Chars("notnivb;") :> <<"U+22FE">>) @@
    (Chars("notnivc;") :> <<"U+22FD">>)) @@
    ((Chars("npar;") :> <<"U+2226">>) @@
    (Chars("nparallel;") :> <<"U+2226">>)))) @@
    ((((Chars("nparsl;") :> <<"U+2AFD", "U+20E5">>) @@
    (Chars("npart;") :> <<"U+2202", "U+0338">>)) @@
    ((Chars("npolint;") :> <<"U+2A14">>) @@
    (Chars("npr;") :> <<"U+2280">>))) @@
    (((Chars("nprcue;") :> <<"U+22E0">>) @@
    (Chars("npre;") :> <<"U+2AAF", "U+0338">>)) @@
    ((Chars("nprec;") :> <<"U+2280">>) @@
    ((Chars("npreceq;") :> <<"U+2AAF", "U+0338">>) @@
    (Chars("nrArr;") :> <<"U+21CF">>)))))) @@
    (((((Chars("nrarr;") :> <<"U+219B">>) @@
    (Chars("nrarrc;") :> <<"U+2933", "U+0338">>)) @@
    ((Chars("nrarrw;") :> <<"U+219D", "U+0338">>) @@
    (Chars("nrightarrow;") :> <<"U+219B">>))) @@
    (((Chars("nrtri;") :> <<"U+22EB">>) @@
    (Chars("nrtrie;") :> <<"U+22ED">>)) @@ ((Chars("nsc;") :> <<"U+2281">>) @@
    ((Chars("nsccue;") :> <<"U+22E1">>) @@
    (Chars("nsce;") :> <<"U+2AB0", "U+0338">>))))) @@
    ((((Chars("nscr;") :> <<"U+1D4C3">>) @@
    (Chars("nshortmid;") :> <<"U+2224">>)) @@
    ((Chars("nshortparallel;") :> <<"U+2226">>) @@
    (Chars("nsim;") :> <<"U+2241">>))) @@
    (((Chars("nsime;") :> <<"U+2244">>) @@
    (Chars("nsimeq;") :> <<"U+2244">>)) @@
    ((Chars("nsmid;") :> <<"U+2224">>) @@
    ((Chars("nspar;") :> <<"U+2226">>) @@
    (Chars("nsqsube;") :> <<"U+22E2">>))))))) @@
    ((((((Chars("nsqsupe;") :> <<"U+22E3">>) @@
    (Chars("nsub;") :> <<"U+2284">>)) @@
    ((Chars("nsubE;") :> <<"U+2AC5", "U+0338">>) @@
    (Chars("nsube;") :> <<"U+2288">>))) @@
    (((Chars("nsubset;") :> <<"U+2282", "U+20D2">>) @@
    (Chars("nsubseteq;") :> <<"U+2288">>)) @@
    ((Chars("nsubseteqq;") :> <<"U+2AC5", "U+0338">>) @@
    (Chars("nsucc;") :> <<"U+2281">>)))) @@
    ((((Chars("nsucceq;") :> <<"U+2AB0", "U+0338">>) @@
    (Chars("nsup;") :> <<"U+2285">>)) @@
    ((Chars("nsupE;") :> <<"U+2AC6", "U+0338">>) @@
    (Chars("nsupe;") :> <<"U+2289">>))) @@
    (((Chars("nsupset;") :> <<"U+2283", "U+20D2">>) @@
    (Chars("nsupseteq;") :> <<"U+2289">>)) @@
    ((Chars("nsupseteqq;") :> <<"U+2AC6", "U+0338">>) @@
    ((Chars("ntgl;") :> <<"U+2279">>) @@
    (Chars("ntilde") :> <<"U+00F1">>)))))) @@
    (((((Chars("ntilde;") :> <<"U+00F1">>) @@
    (Chars("ntlg;") :> <<"U+2278">>)) @@
    ((Chars("ntriangleleft;") :> <<"U+22EA">>) @@
    (Chars("ntrianglelefteq;") :> <<"U+22EC">>))) @@
    (((Chars("ntriangleright;") :> <<"U+22EB">>) @@
    (Chars("ntrianglerighteq;") :> <<"U+22ED">>)) @@
    ((Chars("nu;") :> <<"U+03BD">>) @@ ((Chars("num;") :> <<"#">>) @@
    (Chars("numero;") :> <<"U+2116">>))))) @@
    ((((Chars("numsp;") :> <<"U+2007">>) @@
    (Chars("nvDash;") :> <<"U+22AD">>)) @@
    ((Chars("nvHarr;") :> <<"U+2904">>) @@
    (Chars("nvap;") :> <<"U+224D", "U+20D2">>))) @@
    (((Chars("nvdash;") :> <<"U+22AC">>) @@
    (Chars("nvge;") :> <<"U+2265", "U+20D2">>)) @@
    ((Chars("nvgt;") :> <<">", "U+20D2">>) @@
    ((Chars("nvinfin;") :> <<"U+29DE">>) @@
    (Chars("nvlArr;") :> <<"U+2902">>)))))))) @@
    (((((((Chars("nvle;") :> <<"U+2264", "U+20D2">>) @@
    (Chars("nvlt;") :> <<"<", "U+20D2">>)) @@
    ((Chars("nvltrie;") :> <<"U+22B4", "U+20D2">>) @@
    (Chars("nvrArr;") :> <<"U+2903">>))) @@
    (((Chars("nvrtrie;") :> <<"U+22B5", "U+20D2">>) @@
    (Chars("nvsim;") :> <<"U+223C", "U+20D2">>)) @@
    ((Chars("nwArr;") :> <<"U+21D6">>) @@
    (Chars("nwarhk;") :> <<"U+2923">>)))) @@
    ((((Chars("nwarr;") :> <<"U+2196">>) @@
    (Chars("nwarrow;") :> <<"U+2196">>)) @@
    ((Chars("nwnear;") :> <<"U+2927">>) @@ (Chars("oS;") :> <<"U+24C8">>))) @@
    (((Chars("oacute") :> <<"U+00F3">>) @@
    (Chars("oacute;") :> <<"U+00F3">>)) @@
    ((Chars("oast;") :> <<"U+229B">>) @@ ((Chars("ocir;") :> <<"U+229A">>) @@
    (Chars("ocirc") :> <<"U+00F4">>)))))) @@
    (((((Chars("ocirc;") :> <<"U+00F4">>) @@
    (Chars("ocy;") :> <<"U+043E">>)) @@ ((Chars("odash;") :> <<"U+229D">>) @@
    (Chars("odblac;") :> <<"U+0151">>))) @@
    (((Chars("odiv;") :> <<"U+2A38">>) @@ (Chars("odot;") :> <<"U+2299">>)) @@
    ((Chars("odsold;") :> <<"U+29BC">>) @@
    ((Chars("oelig;") :> <<"U+0153">>) @@
    (Chars("ofcir;") :> <<"U+29BF">>))))) @@
    ((((Chars("ofr;") :> <<"U+1D52C">>) @@
    (Chars("ogon;") :> <<"U+02DB">>)) @@ ((Chars("ograve") :> <<"U+00F2">>) @@
    (Chars("ograve;") :> <<"U+00F2">>))) @@
    (((Chars("ogt;") :> <<"U+29C1">>) @@ (Chars("ohbar;") :> <<"U+29B5">>)) @@
    ((Chars("ohm;") :> <<"U+03A9">>) @@ ((Chars("oint;") :> <<"U+222E">>) @@
    (Chars("olarr;") :> <<"U+21BA">>))))))) @@
    ((((((Chars("olcir;") :> <<"U+29BE">>) @@
    (Chars("olcross;") :> <<"U+29BB">>)) @@
    ((Chars("oline;") :> <<"U+203E">>) @@ (Chars("olt;") :> <<"U+29C0">>))) @@
    (((Chars("omacr;") :> <<"U+014D">>) @@
    (Chars("omega;") :> <<"U+03C9">>)) @@
    ((Chars("omicron;") :> <<"U+03BF">>) @@
    (Chars("omid;") :> <<"U+29B6">>)))) @@
    ((((Chars("ominus;") :> <<"U+2296">>) @@
    (Chars("oopf;") :> <<"U+1D560">>)) @@ ((Chars("opar;") :> <<"U+29B7">>) @@
    (Chars("operp;") :> <<"U+29B9">>))) @@
    (((Chars("oplus;") :> <<"U+2295">>) @@ (Chars("or;") :> <<"U+2228">>)) @@
    ((Chars("orarr;") :> <<"U+21BB">>) @@ ((Chars("ord;") :> <<"U+2A5D">>) @@
    (Chars("order;") :> <<"U+2134">>)))))) @@
    (((((Chars("orderof;") :> <<"U+2134">>) @@
    (Chars("ordf") :> <<"U+00AA">>)) @@ ((Chars("ordf;") :> <<"U+00AA">>) @@
    (Chars("ordm") :> <<"U+00BA">>))) @@ (((Chars("ordm;") :> <<"U+00BA">>) @@
    (Chars("origof;") :> <<"U+22B6">>)) @@
    ((Chars("oror;") :> <<"U+2A56">>) @@
    ((Chars("orslope;") :> <<"U+2A57">>) @@
    (Chars("orv;") :> <<"U+2A5B">>))))) @@
    ((((Chars("oscr;") :> <<"U+2134">>) @@
    (Chars("oslash") :> <<"U+00F8">>)) @@
    ((Chars("oslash;") :> <<"U+00F8">>) @@
    (Chars("osol;") :> <<"U+2298">>))) @@
    (((Chars("otilde") :> <<"U+00F5">>) @@
    (Chars("otilde;") :> <<"U+00F5">>)) @@
    ((Chars("otimes;") :> <<"U+2297">>) @@
    ((Chars("otimesas;") :> <<"U+2A36">>) @@
    (Chars("ouml") :> <<"U+00F6">>))))))))))) @@
    ((((((((((Chars("ouml;") :> <<"U+00F6">>) @@
    (Chars("ovbar;") :> <<"U+233D">>)) @@ ((Chars("par;") :> <<"U+2225">>) @@
    (Chars("para") :> <<"U+00B6">>))) @@ (((Chars("para;") :> <<"U+00B6">>) @@
    (Chars("parallel;") :> <<"U+2225">>)) @@
    ((Chars("parsim;") :> <<"U+2AF3">>) @@
    (Chars("parsl;") :> <<"U+2AFD">>)))) @@
    ((((Chars("part;") :> <<"U+2202">>) @@ (Chars("pcy;") :> <<"U+043F">>)) @@
    ((Chars("percnt;") :> <<"%">>) @@ (Chars("period;") :> <<".">>))) @@
    (((Chars("permil;") :> <<"U+2030">>) @@
    (Chars("perp;") :> <<"U+22A5">>)) @@
    ((Chars("pertenk;") :> <<"U+2031">>) @@
    ((Chars("pfr;") :> <<"U+1D52D">>) @@
    (Chars("phi;") :> <<"U+03C6">>)))))) @@
    (((((Chars("phiv;") :> <<"U+03D5">>) @@
    (Chars("phmmat;") :> <<"U+2133">>)) @@
    ((Chars("phone;") :> <<"U+260E">>) @@ (Chars("pi;") :> <<"U+03C0">>))) @@
    (((Chars("pitchfork;") :> <<"U+22D4">>) @@
    (Chars("piv;") :> <<"U+03D6">>)) @@ ((Chars("planck;") :> <<"U+210F">>) @@
    (Chars("planckh;") :> <<"U+210E">>)))) @@
    ((((Chars("plankv;") :> <<"U+210F">>) @@ (Chars("plus;") :> <<"+">>)) @@
    ((Chars("plusacir;") :> <<"U+2A23">>) @@
    (Chars("plusb;") :> <<"U+229E">>))) @@
    (((Chars("pluscir;") :> <<"U+2A22">>) @@
    (Chars("plusdo;") :> <<"U+2214">>)) @@
    ((Chars("plusdu;") :> <<"U+2A25">>) @@
    ((Chars("pluse;") :> <<"U+2A72">>) @@
    (Chars("plusmn") :> <<"U+00B1">>))))))) @@
    ((((((Chars("plusmn;") :> <<"U+00B1">>) @@
    (Chars("plussim;") :> <<"U+2A26">>)) @@
    ((Chars("plustwo;") :> <<"U+2A27">>) @@
    (Chars("pm;") :> <<"U+00B1">>))) @@
    (((Chars("pointint;") :> <<"U+2A15">>) @@
    (Chars("popf;") :> <<"U+1D561">>)) @@ ((Chars("pound") :> <<"U+00A3">>) @@
    (Chars("pound;") :> <<"U+00A3">>)))) @@
    ((((Chars("pr;") :> <<"U+227A">>) @@ (Chars("prE;") :> <<"U+2AB3">>)) @@
    ((Chars("prap;") :> <<"U+2AB7">>) @@
    (Chars("prcue;") :> <<"U+227C">>))) @@
    (((Chars("pre;") :> <<"U+2AAF">>) @@ (Chars("prec;") :> <<"U+227A">>)) @@
    ((Chars("precapprox;") :> <<"U+2AB7">>) @@
    ((Chars("preccurlyeq;") :> <<"U+227C">>) @@
    (Chars("preceq;") :> <<"U+2AAF">>)))))) @@
    (((((Chars("precnapprox;") :> <<"U+2AB9">>) @@
    (Chars("precneqq;") :> <<"U+2AB5">>)) @@
    ((Chars("precnsim;") :> <<"U+22E8">>) @@
    (Chars("precsim;") :> <<"U+227E">>))) @@
    (((Chars("prime;") :> <<"U+2032">>) @@
    (Chars("primes;") :> <<"U+2119">>)) @@
    ((Chars("prnE;") :> <<"U+2AB5">>) @@ ((Chars("prnap;") :> <<"U+2AB9">>) @@
    (Chars("prnsim;") :> <<"U+22E8">>))))) @@
    ((((Chars("prod;") :> <<"U+220F">>) @@
    (Chars("profalar;") :> <<"U+232E">>)) @@
    ((Chars("profline;") :> <<"U+2312">>) @@
    (Chars("profsurf;") :> <<"U+2313">>))) @@
    (((Chars("prop;") :> <<"U+221D">>) @@
    (Chars("propto;") :> <<"U+221D">>)) @@
    ((Chars("prsim;") :> <<"U+227E">>) @@
    ((Chars("prurel;") :> <<"U+22B0">>) @@
    (Chars("pscr;") :> <<"U+1D4C5">>)))))))) @@
    (((((((Chars("psi;") :> <<"U+03C8">>) @@
    (Chars("puncsp;") :> <<"U+2008">>)) @@
    ((Chars("qfr;") :> <<"U+1D52E">>) @@ (Chars("qint;") :> <<"U+2A0C">>))) @@
    (((Chars("qopf;") :> <<"U+1D562">>) @@
    (Chars("qprime;") :> <<"U+2057">>)) @@
    ((Chars("qscr;") :> <<"U+1D4C6">>) @@
    (Chars("quaternions;") :> <<"U+210D">>)))) @@
    ((((Chars("quatint;") :> <<"U+2A16">>) @@ (Chars("quest;") :> <<"?">>)) @@
    ((Chars("questeq;") :> <<"U+225F">>) @@ (Chars("quot") :> <<"\"">>))) @@
    (((Chars("quot;") :> <<"\"">>) @@ (Chars("rAarr;") :> <<"U+21DB">>)) @@
    ((Chars("rArr;") :> <<"U+21D2">>) @@
    ((Chars("rAtail;") :> <<"U+291C">>) @@
    (Chars("rBarr;") :> <<"U+290F">>)))))) @@
    (((((Chars("rHar;") :> <<"U+2964">>) @@
    (Chars("race;") :> <<"U+223D", "U+0331">>)) @@
    ((Chars("racute;") :> <<"U+0155">>) @@
    (Chars("radic;") :> <<"U+221A">>))) @@
    (((Chars("raemptyv;") :> <<"U+29B3">>) @@
    (Chars("rang;") :> <<"U+27E9">>)) @@ ((Chars("rangd;") :> <<"U+2992">>) @@
    ((Chars("range;") :> <<"U+29A5">>) @@
    (Chars("rangle;") :> <<"U+27E9">>))))) @@
    ((((Chars("raquo") :> <<"U+00BB">>) @@
    (Chars("raquo;") :> <<"U+00BB">>)) @@ ((Chars("rarr;") :> <<"U+2192">>) @@
    (Chars("rarrap;") :> <<"U+2975">>))) @@
    (((Chars("rarrb;") :> <<"U+21E5">>) @@
    (Chars("rarrbfs;") :> <<"U+2920">>)) @@
    ((Chars("rarrc;") :> <<"U+2933">>) @@
    ((Chars("rarrfs;") :> <<"U+291E">>) @@
    (Chars("rarrhk;") :> <<"U+21AA">>))))))) @@
    ((((((Chars("rarrlp;") :> <<"U+21AC">>) @@
    (Chars("rarrpl;") :> <<"U+2945">>)) @@
    ((Chars("rarrsim;") :> <<"U+2974">>) @@
    (Chars("rarrtl;") :> <<"U+21A3">>))) @@
    (((Chars("rarrw;") :> <<"U+219D">>) @@
    (Chars("ratail;") :> <<"U+291A">>)) @@
    ((Chars("ratio;") :> <<"U+2236">>) @@
    (Chars("rationals;") :> <<"U+211A">>)))) @@
    ((((Chars("rbarr;") :> <<"U+290D">>) @@
    (Chars("rbbrk;") :> <<"U+2773">>)) @@ ((Chars("rbrace;") :> <<"}">>) @@
    (Chars("rbrack;") :> <<"]">>))) @@ (((Chars("rbrke;") :> <<"U+298C">>) @@
    (Chars("rbrksld;") :> <<"U+298E">>)) @@
    ((Chars("rbrkslu;") :> <<"U+2990">>) @@
    ((Chars("rcaron;") :> <<"U+0159">>) @@
    (Chars("rcedil;") :> <<"U+0157">>)))))) @@
    (((((Chars("rceil;") :> <<"U+2309">>) @@ (Chars("rcub;") :> <<"}">>)) @@
    ((Chars("rcy;") :> <<"U+0440">>) @@ (Chars("rdca;") :> <<"U+2937">>))) @@
    (((Chars("rdldhar;") :> <<"U+2969">>) @@
    (Chars("rdquo;") :> <<"U+201D">>)) @@
    ((Chars("rdquor;") :> <<"U+201D">>) @@
    ((Chars("rdsh;") :> <<"U+21B3">>) @@
    (Chars("real;") :> <<"U+211C">>))))) @@
    ((((Chars("realine;") :> <<"U+211B">>) @@
    (Chars("realpart;") :> <<"U+211C">>)) @@
    ((Chars("reals;") :> <<"U+211D">>) @@
    (Chars("rect;") :> <<"U+25AD">>))) @@ (((Chars("reg") :> <<"U+00AE">>) @@
    (Chars("reg;") :> <<"U+00AE">>)) @@ ((Chars("rfisht;") :> <<"U+297D">>) @@
    ((Chars("rfloor;") :> <<"U+230B">>) @@
    (Chars("rfr;") :> <<"U+1D52F">>))))))))) @@
    ((((((((Chars("rhard;") :> <<"U+21C1">>) @@
    (Chars("rharu;") :> <<"U+21C0">>)) @@
    ((Chars("rharul;") :> <<"U+296C">>) @@
    (Chars("rho;") :> <<"U+03C1">>))) @@ (((Chars("rhov;") :> <<"U+03F1">>) @@
    (Chars("rightarrow;") :> <<"U+2192">>)) @@
    ((Chars("rightarrowtail;") :> <<"U+21A3">>) @@
    (Chars("rightharpoondown;") :> <<"U+21C1">>)))) @@
    ((((Chars("rightharpoonup;") :> <<"U+21C0">>) @@
    (Chars("rightleftarrows;") :> <<"U+21C4">>)) @@
    ((Chars("rightleftharpoons;") :> <<"U+21CC">>) @@
    (Chars("rightrightarrows;") :> <<"U+21C9">>))) @@
    (((Chars("rightsquigarrow;") :> <<"U+219D">>) @@
    (Chars("rightthreetimes;") :> <<"U+22CC">>)) @@
    ((Chars("ring;") :> <<"U+02DA">>) @@
    ((Chars("risingdotseq;") :> <<"U+2253">>) @@
    (Chars("rlarr;") :> <<"U+21C4">>)))))) @@
    (((((Chars("rlhar;") :> <<"U+21CC">>) @@
    (Chars("rlm;") :> <<"U+200F">>)) @@ ((Chars("rmoust;") :> <<"U+23B1">>) @@
    (Chars("rmoustache;") :> <<"U+23B1">>))) @@
    (((Chars("rnmid;") :> <<"U+2AEE">>) @@
    (Chars("roang;") :> <<"U+27ED">>)) @@
    ((Chars("roarr;") :> <<"U+21FE">>) @@
    ((Chars("robrk;") :> <<"U+27E7">>) @@
    (Chars("ropar;") :> <<"U+2986">>))))) @@
    ((((Chars("ropf;") :> <<"U+1D563">>) @@
    (Chars("roplus;") :> <<"U+2A2E">>)) @@
    ((Chars("rotimes;") :> <<"U+2A35">>) @@ (Chars("rpar;") :> <<")">>))) @@
    (((Chars("rpargt;") :> <<"U+2994">>) @@
    (Chars("rppolint;") :> <<"U+2A12">>)) @@
    ((Chars("rrarr;") :> <<"U+21C9">>) @@
    ((Chars("rsaquo;") :> <<"U+203A">>) @@
    (Chars("rscr;") :> <<"U+1D4C7">>))))))) @@
    ((((((Chars("rsh;") :> <<"U+21B1">>) @@ (Chars("rsqb;") :> <<"]">>)) @@
    ((Chars("rsquo;") :> <<"U+2019">>) @@
    (Chars("rsquor;") :> <<"U+2019">>))) @@
    (((Chars("rthree;") :> <<"U+22CC">>) @@
    (Chars("rtimes;") :> <<"U+22CA">>)) @@
    ((Chars("rtri;") :> <<"U+25B9">>) @@
    (Chars("rtrie;") :> <<"U+22B5">>)))) @@
    ((((Chars("rtrif;") :> <<"U+25B8">>) @@
    (Chars("rtriltri;") :> <<"U+29CE">>)) @@
    ((Chars("ruluhar;") :> <<"U+2968">>) @@
    (Chars("rx;") :> <<"U+211E">>))) @@
    (((Chars("sacute;") :> <<"U+015B">>) @@
    (Chars("sbquo;") :> <<"U+201A">>)) @@ ((Chars("sc;") :> <<"U+227B">>) @@
    ((Chars("scE;") :> <<"U+2AB4">>) @@
    (Chars("scap;") :> <<"U+2AB8">>)))))) @@
    (((((Chars("scaron;") :> <<"U+0161">>) @@
    (Chars("sccue;") :> <<"U+227D">>)) @@ ((Chars("sce;") :> <<"U+2AB0">>) @@
    (Chars("scedil;") :> <<"U+015F">>))) @@
    (((Chars("scirc;") :> <<"U+015D">>) @@
    (Chars("scnE;") :> <<"U+2AB6">>)) @@ ((Chars("scnap;") :> <<"U+2ABA">>) @@
    ((Chars("scnsim;") :> <<"U+22E9">>) @@
    (Chars("scpolint;") :> <<"U+2A13">>))))) @@
    ((((Chars("scsim;") :> <<"U+227F">>) @@
    (Chars("scy;") :> <<"U+0441">>)) @@ ((Chars("sdot;") :> <<"U+22C5">>) @@
    (Chars("sdotb;") :> <<"U+22A1">>))) @@
    (((Chars("sdote;") :> <<"U+2A66">>) @@
    (Chars("seArr;") :> <<"U+21D8">>)) @@
    ((Chars("searhk;") :> <<"U+2925">>) @@
    ((Chars("searr;") :> <<"U+2198">>) @@
    (Chars("searrow;") :> <<"U+2198">>)))))))) @@
    (((((((Chars("sect") :> <<"U+00A7">>) @@
    (Chars("sect;") :> <<"U+00A7">>)) @@ ((Chars("semi;") :> <<";">>) @@
    (Chars("seswar;") :> <<"U+2929">>))) @@
    (((Chars("setminus;") :> <<"U+2216">>) @@
    (Chars("setmn;") :> <<"U+2216">>)) @@ ((Chars("sext;") :> <<"U+2736">>) @@
    (Chars("sfr;") :> <<"U+1D530">>)))) @@
    ((((Chars("sfrown;") :> <<"U+2322">>) @@
    (Chars("sharp;") :> <<"U+266F">>)) @@
    ((Chars("shchcy;") :> <<"U+0449">>) @@
    (Chars("shcy;") :> <<"U+0448">>))) @@
    (((Chars("shortmid;") :> <<"U+2223">>) @@
    (Chars("shortparallel;") :> <<"U+2225">>)) @@
    ((Chars("shy") :> <<"U+00AD">>) @@ ((Chars("shy;") :> <<"U+00AD">>) @@
    (Chars("sigma;") :> <<"U+03C3">>)))))) @@
    (((((Chars("sigmaf;") :> <<"U+03C2">>) @@
    (Chars("sigmav;") :> <<"U+03C2">>)) @@ ((Chars("sim;") :> <<"U+223C">>) @@
    (Chars("simdot;") :> <<"U+2A6A">>))) @@
    (((Chars("sime;") :> <<"U+2243">>) @@
    (Chars("simeq;") :> <<"U+2243">>)) @@ ((Chars("simg;") :> <<"U+2A9E">>) @@
    ((Chars("simgE;") :> <<"U+2AA0">>) @@
    (Chars("siml;") :> <<"U+2A9D">>))))) @@
    ((((Chars("simlE;") :> <<"U+2A9F">>) @@
    (Chars("simne;") :> <<"U+2246">>)) @@
    ((Chars("simplus;") :> <<"U+2A24">>) @@
    (Chars("simrarr;") :> <<"U+2972">>))) @@
    (((Chars("slarr;") :> <<"U+2190">>) @@
    (Chars("smallsetminus;") :> <<"U+2216">>)) @@
    ((Chars("smashp;") :> <<"U+2A33">>) @@
    ((Chars("smeparsl;") :> <<"U+29E4">>) @@
    (Chars("smid;") :> <<"U+2223">>))))))) @@
    ((((((Chars("smile;") :> <<"U+2323">>) @@
    (Chars("smt;") :> <<"U+2AAA">>)) @@ ((Chars("smte;") :> <<"U+2AAC">>) @@
    (Chars("smtes;") :> <<"U+2AAC", "U+FE00">>))) @@
    (((Chars("softcy;") :> <<"U+044C">>) @@ (Chars("sol;") :> <<"/">>)) @@
    ((Chars("solb;") :> <<"U+29C4">>) @@
    (Chars("solbar;") :> <<"U+233F">>)))) @@
    ((((Chars("sopf;") :> <<"U+1D564">>) @@
    (Chars("spades;") :> <<"U+2660">>)) @@
    ((Chars("spadesuit;") :> <<"U+2660">>) @@
    (Chars("spar;") :> <<"U+2225">>))) @@
    (((Chars("sqcap;") :> <<"U+2293">>) @@
    (Chars("sqcaps;") :> <<"U+2293", "U+FE00">>)) @@
    ((Chars("sqcup;") :> <<"U+2294">>) @@
    ((Chars("sqcups;") :> <<"U+2294", "U+FE00">>) @@
    (Chars("sqsub;") :> <<"U+228F">>)))))) @@
    (((((Chars("sqsube;") :> <<"U+2291">>) @@
    (Chars("sqsubset;") :> <<"U+228F">>)) @@
    ((Chars("sqsubseteq;") :> <<"U+2291">>) @@
    (Chars("sqsup;") :> <<"U+2290">>))) @@
    (((Chars("sqsupe;") :> <<"U+2292">>) @@
    (Chars("sqsupset;") :> <<"U+2290">>)) @@
    ((Chars("sqsupseteq;") :> <<"U+2292">>) @@
    ((Chars("squ;") :> <<"U+25A1">>) @@
    (Chars("square;") :> <<"U+25A1">>))))) @@
    ((((Chars("squarf;") :> <<"U+25AA">>) @@
    (Chars("squf;") :> <<"U+25AA">>)) @@ ((Chars("srarr;") :> <<"U+2192">>) @@
    (Chars("sscr;") :> <<"U+1D4C8">>))) @@
    (((Chars("ssetmn;") :> <<"U+2216">>) @@
    (Chars("ssmile;") :> <<"U+2323">>)) @@
    ((Chars("sstarf;") :> <<"U+22C6">>) @@
    ((Chars("star;") :> <<"U+2606">>) @@
    (Chars("starf;") :> <<"U+2605">>)))))))))) @@
    (((((((((Chars("straightepsilon;") :> <<"U+03F5">>) @@
    (Chars("straightphi;") :> <<"U+03D5">>)) @@
    ((Chars("strns;") :> <<"U+00AF">>) @@ (Chars("sub;") :> <<"U+2282">>))) @@
    (((Chars("subE;") :> <<"U+2AC5">>) @@
    (Chars("subdot;") :> <<"U+2ABD">>)) @@
    ((Chars("sube;") :> <<"U+2286">>) @@
    (Chars("subedot;") :> <<"U+2AC3">>)))) @@
    ((((Chars("submult;") :> <<"U+2AC1">>) @@
    (Chars("subnE;") :> <<"U+2ACB">>)) @@
    ((Chars("subne;") :> <<"U+228A">>) @@
    (Chars("subplus;") :> <<"U+2ABF">>))) @@
    (((Chars("subrarr;") :> <<"U+2979">>) @@
    (Chars("subset;") :> <<"U+2282">>)) @@
    ((Chars("subseteq;") :> <<"U+2286">>) @@
    ((Chars("subseteqq;") :> <<"U+2AC5">>) @@
    (Chars("subsetneq;") :> <<"U+228A">>)))))) @@
    (((((Chars("subsetneqq;") :> <<"U+2ACB">>) @@
    (Chars("subsim;") :> <<"U+2AC7">>)) @@
    ((Chars("subsub;") :> <<"U+2AD5">>) @@
    (Chars("subsup;") :> <<"U+2AD3">>))) @@
    (((Chars("succ;") :> <<"U+227B">>) @@
    (Chars("succapprox;") :> <<"U+2AB8">>)) @@
    ((Chars("succcurlyeq;") :> <<"U+227D">>) @@
    (Chars("succeq;") :> <<"U+2AB0">>)))) @@
    ((((Chars("succnapprox;") :> <<"U+2ABA">>) @@
    (Chars("succneqq;") :> <<"U+2AB6">>)) @@
    ((Chars("succnsim;") :> <<"U+22E9">>) @@
    (Chars("succsim;") :> <<"U+227F">>))) @@
    (((Chars("sum;") :> <<"U+2211">>) @@ (Chars("sung;") :> <<"U+266A">>)) @@
    ((Chars("sup1") :> <<"U+00B9">>) @@ ((Chars("sup1;") :> <<"U+00B9">>) @@
    (Chars("sup2") :> <<"U+00B2">>))))))) @@
    ((((((Chars("sup2;") :> <<"U+00B2">>) @@
    (Chars("sup3") :> <<"U+00B3">>)) @@ ((Chars("sup3;") :> <<"U+00B3">>) @@
    (Chars("sup;") :> <<"U+2283">>))) @@ (((Chars("supE;") :> <<"U+2AC6">>) @@
    (Chars("supdot;") :> <<"U+2ABE">>)) @@
    ((Chars("supdsub;") :> <<"U+2AD8">>) @@
    (Chars("supe;") :> <<"U+2287">>)))) @@
    ((((Chars("supedot;") :> <<"U+2AC4">>) @@
    (Chars("suphsol;") :> <<"U+27C9">>)) @@
    ((Chars("suphsub;") :> <<"U+2AD7">>) @@
    (Chars("suplarr;") :> <<"U+297B">>))) @@
    (((Chars("supmult;") :> <<"U+2AC2">>) @@
    (Chars("supnE;") :> <<"U+2ACC">>)) @@
    ((Chars("supne;") :> <<"U+228B">>) @@
    ((Chars("supplus;") :> <<"U+2AC0">>) @@
    (Chars("supset;") :> <<"U+2283">>)))))) @@
    (((((Chars("supseteq;") :> <<"U+2287">>) @@
    (Chars("supseteqq;") :> <<"U+2AC6">>)) @@
    ((Chars("supsetneq;") :> <<"U+228B">>) @@
    (Chars("supsetneqq;") :> <<"U+2ACC">>))) @@
    (((Chars("supsim;") :> <<"U+2AC8">>) @@
    (Chars("supsub;") :> <<"U+2AD4">>)) @@
    ((Chars("supsup;") :> <<"U+2AD6">>) @@
    ((Chars("swArr;") :> <<"U+21D9">>) @@
    (Chars("swarhk;") :> <<"U+2926">>))))) @@
    ((((Chars("swarr;") :> <<"U+2199">>) @@
    (Chars("swarrow;") :> <<"U+2199">>)) @@
    ((Chars("swnwar;") :> <<"U+292A">>) @@
    (Chars("szlig") :> <<"U+00DF">>))) @@
    (((Chars("szlig;") :> <<"U+00DF">>) @@
    (Chars("target;") :> <<"U+2316">>)) @@ ((Chars("tau;") :> <<"U+03C4">>) @@
    ((Chars("tbrk;") :> <<"U+23B4">>) @@
    (Chars("tcaron;") :> <<"U+0165">>)))))))) @@
    (((((((Chars("tcedil;") :> <<"U+0163">>) @@
    (Chars("tcy;") :> <<"U+0442">>)) @@ ((Chars("tdot;") :> <<"U+20DB">>) @@
    (Chars("telrec;") :> <<"U+2315">>))) @@
    (((Chars("tfr;") :> <<"U+1D531">>) @@
    (Chars("there4;") :> <<"U+2234">>)) @@
    ((Chars("therefore;") :> <<"U+2234">>) @@
    (Chars("theta;") :> <<"U+03B8">>)))) @@
    ((((Chars("thetasym;") :> <<"U+03D1">>) @@
    (Chars("thetav;") :> <<"U+03D1">>)) @@
    ((Chars("thickapprox;") :> <<"U+2248">>) @@
    (Chars("thicksim;") :> <<"U+223C">>))) @@
    (((Chars("thinsp;") :> <<"U+2009">>) @@
    (Chars("thkap;") :> <<"U+2248">>)) @@
    ((Chars("thksim;") :> <<"U+223C">>) @@
    ((Chars("thorn") :> <<"U+00FE">>) @@
    (Chars("thorn;") :> <<"U+00FE">>)))))) @@
    (((((Chars("tilde;") :> <<"U+02DC">>) @@
    (Chars("times") :> <<"U+00D7">>)) @@ ((Chars("times;") :> <<"U+00D7">>) @@
    (Chars("timesb;") :> <<"U+22A0">>))) @@
    (((Chars("timesbar;") :> <<"U+2A31">>) @@
    (Chars("timesd;") :> <<"U+2A30">>)) @@
    ((Chars("tint;") :> <<"U+222D">>) @@ ((Chars("toea;") :> <<"U+2928">>) @@
    (Chars("top;") :> <<"U+22A4">>))))) @@
    ((((Chars("topbot;") :> <<"U+2336">>) @@
    (Chars("topcir;") :> <<"U+2AF1">>)) @@
    ((Chars("topf;") :> <<"U+1D565">>) @@
    (Chars("topfork;") :> <<"U+2ADA">>))) @@
    (((Chars("tosa;") :> <<"U+2929">>) @@
    (Chars("tprime;") :> <<"U+2034">>)) @@
    ((Chars("trade;") :> <<"U+2122">>) @@
    ((Chars("triangle;") :> <<"U+25B5">>) @@
    (Chars("triangledown;") :> <<"U+25BF">>))))))) @@
    ((((((Chars("triangleleft;") :> <<"U+25C3">>) @@
    (Chars("trianglelefteq;") :> <<"U+22B4">>)) @@
    ((Chars("triangleq;") :> <<"U+225C">>) @@
    (Chars("triangleright;") :> <<"U+25B9">>))) @@
    (((Chars("trianglerighteq;") :> <<"U+22B5">>) @@
    (Chars("tridot;") :> <<"U+25EC">>)) @@
    ((Chars("trie;") :> <<"U+225C">>) @@
    (Chars("triminus;") :> <<"U+2A3A">>)))) @@
    ((((Chars("triplus;") :> <<"U+2A39">>) @@
    (Chars("trisb;") :> <<"U+29CD">>)) @@
    ((Chars("tritime;") :> <<"U+2A3B">>) @@
    (Chars("trpezium;") :> <<"U+23E2">>))) @@
    (((Chars("tscr;") :> <<"U+1D4C9">>) @@
    (Chars("tscy;") :> <<"U+0446">>)) @@ ((Chars("tshcy;") :> <<"U+045B">>) @@
    ((Chars("tstrok;") :> <<"U+0167">>) @@
    (Chars("twixt;") :> <<"U+226C">>)))))) @@
    (((((Chars("twoheadleftarrow;") :> <<"U+219E">>) @@
    (Chars("twoheadrightarrow;") :> <<"U+21A0">>)) @@
    ((Chars("uArr;") :> <<"U+21D1">>) @@ (Chars("uHar;") :> <<"U+2963">>))) @@
    (((Chars("uacute") :> <<"U+00FA">>) @@
    (Chars("uacute;") :> <<"U+00FA">>)) @@
    ((Chars("uarr;") :> <<"U+2191">>) @@ ((Chars("ubrcy;") :> <<"U+045E">>) @@
    (Chars("ubreve;") :> <<"U+016D">>))))) @@
    ((((Chars("ucirc") :> <<"U+00FB">>) @@
    (Chars("ucirc;") :> <<"U+00FB">>)) @@ ((Chars("ucy;") :> <<"U+0443">>) @@
    (Chars("udarr;") :> <<"U+21C5">>))) @@
    (((Chars("udblac;") :> <<"U+0171">>) @@
    (Chars("udhar;") :> <<"U+296E">>)) @@
    ((Chars("ufisht;") :> <<"U+297E">>) @@
    ((Chars("ufr;") :> <<"U+1D532">>) @@
    (Chars("ugrave") :> <<"U+00F9">>))))))))) @@
    ((((((((Chars("ugrave;") :> <<"U+00F9">>) @@
    (Chars("uharl;") :> <<"U+21BF">>)) @@
    ((Chars("uharr;") :> <<"U+21BE">>) @@
    (Chars("uhblk;") :> <<"U+2580">>))) @@
    (((Chars("ulcorn;") :> <<"U+231C">>) @@
    (Chars("ulcorner;") :> <<"U+231C">>)) @@
    ((Chars("ulcrop;") :> <<"U+230F">>) @@
    (Chars("ultri;") :> <<"U+25F8">>)))) @@
    ((((Chars("umacr;") :> <<"U+016B">>) @@ (Chars("uml") :> <<"U+00A8">>)) @@
    ((Chars("uml;") :> <<"U+00A8">>) @@ (Chars("uogon;") :> <<"U+0173">>))) @@
    (((Chars("uopf;") :> <<"U+1D566">>) @@
    (Chars("uparrow;") :> <<"U+2191">>)) @@
    ((Chars("updownarrow;") :> <<"U+2195">>) @@
    ((Chars("upharpoonleft;") :> <<"U+21BF">>) @@
    (Chars("upharpoonright;") :> <<"U+21BE">>)))))) @@
    (((((Chars("uplus;") :> <<"U+228E">>) @@
    (Chars("upsi;") :> <<"U+03C5">>)) @@ ((Chars("upsih;") :> <<"U+03D2">>) @@
    (Chars("upsilon;") :> <<"U+03C5">>))) @@
    (((Chars("upuparrows;") :> <<"U+21C8">>) @@
    (Chars("urcorn;") :> <<"U+231D">>)) @@
    ((Chars("urcorner;") :> <<"U+231D">>) @@
    ((Chars("urcrop;") :> <<"U+230E">>) @@
    (Chars("uring;") :> <<"U+016F">>))))) @@
    ((((Chars("urtri;") :> <<"U+25F9">>) @@
    (Chars("uscr;") :> <<"U+1D4CA">>)) @@
    ((Chars("utdot;") :> <<"U+22F0">>) @@
    (Chars("utilde;") :> <<"U+0169">>))) @@
    (((Chars("utri;") :> <<"U+25B5">>) @@
    (Chars("utrif;") :> <<"U+25B4">>)) @@
    ((Chars("uuarr;") :> <<"U+21C8">>) @@ ((Chars("uuml") :> <<"U+00FC">>) @@
    (Chars("uuml;") :> <<"U+00FC">>))))))) @@
    ((((((Chars("uwangle;") :> <<"U+29A7">>) @@
    (Chars("vArr;") :> <<"U+21D5">>)) @@ ((Chars("vBar;") :> <<"U+2AE8">>) @@
    (Chars("vBarv;") :> <<"U+2AE9">>))) @@
    (((Chars("vDash;") :> <<"U+22A8">>) @@
    (Chars("vangrt;") :> <<"U+299C">>)) @@
    ((Chars("varepsilon;") :> <<"U+03F5">>) @@
    (Chars("varkappa;") :> <<"U+03F0">>)))) @@
    ((((Chars("varnothing;") :> <<"U+2205">>) @@
    (Chars("varphi;") :> <<"U+03D5">>)) @@
    ((Chars("varpi;") :> <<"U+03D6">>) @@
    (Chars("varpropto;") :> <<"U+221D">>))) @@
    (((Chars("varr;") :> <<"U+2195">>) @@
    (Chars("varrho;") :> <<"U+03F1">>)) @@
    ((Chars("varsigma;") :> <<"U+03C2">>) @@
    ((Chars("varsubsetneq;") :> <<"U+228A", "U+FE00">>) @@
    (Chars("varsubsetneqq;") :> <<"U+2ACB", "U+FE00">>)))))) @@
    (((((Chars("varsupsetneq;") :> <<"U+228B", "U+FE00">>) @@
    (Chars("varsupsetneqq;") :> <<"U+2ACC", "U+FE00">>)) @@
    ((Chars("vartheta;") :> <<"U+03D1">>) @@
    (Chars("vartriangleleft;") :> <<"U+22B2">>))) @@
    (((Chars("vartriangleright;") :> <<"U+22B3">>) @@
    (Chars("vcy;") :> <<"U+0432">>)) @@ ((Chars("vdash;") :> <<"U+22A2">>) @@
    ((Chars("vee;") :> <<"U+2228">>) @@
    (Chars("veebar;") :> <<"U+22BB">>))))) @@
    ((((Chars("veeeq;") :> <<"U+225A">>) @@
    (Chars("vellip;") :> <<"U+22EE">>)) @@ ((Chars("verbar;") :> <<"|">>) @@
    (Chars("vert;") :> <<"|">>))) @@ (((Chars("vfr;") :> <<"U+1D533">>) @@
    (Chars("vltri;") :> <<"U+22B2">>)) @@
    ((Chars("vnsub;") :> <<"U+2282", "U+20D2">>) @@
    ((Chars("vnsup;") :> <<"U+2283", "U+20D2">>) @@
    (Chars("vopf;") :> <<"U+1D567">>)))))))) @@
    (((((((Chars("vprop;") :> <<"U+221D">>) @@
    (Chars("vrtri;") :> <<"U+22B3">>)) @@
    ((Chars("vscr;") :> <<"U+1D4CB">>) @@
    (Chars("vsubnE;") :> <<"U+2ACB", "U+FE00">>))) @@
    (((Chars("vsubne;") :> <<"U+228A", "U+FE00">>) @@
    (Chars("vsupnE;") :> <<"U+2ACC", "U+FE00">>)) @@
    ((Chars("vsupne;") :> <<"U+228B", "U+FE00">>) @@
    (Chars("vzigzag;") :> <<"U+299A">>)))) @@
    ((((Chars("wcirc;") :> <<"U+0175">>) @@
    (Chars("wedbar;") :> <<"U+2A5F">>)) @@
    ((Chars("wedge;") :> <<"U+2227">>) @@
    (Chars("wedgeq;") :> <<"U+2259">>))) @@
    (((Chars("weierp;") :> <<"U+2118">>) @@
    (Chars("wfr;") :> <<"U+1D534">>)) @@ ((Chars("wopf;") :> <<"U+1D568">>) @@
    ((Chars("wp;") :> <<"U+2118">>) @@ (Chars("wr;") :> <<"U+2240">>)))))) @@
    (((((Chars("wreath;") :> <<"U+2240">>) @@
    (Chars("wscr;") :> <<"U+1D4CC">>)) @@ ((Chars("xcap;") :> <<"U+22C2">>) @@
    (Chars("xcirc;") :> <<"U+25EF">>))) @@
    (((Chars("xcup;") :> <<"U+22C3">>) @@
    (Chars("xdtri;") :> <<"U+25BD">>)) @@ ((Chars("xfr;") :> <<"U+1D535">>) @@
    ((Chars("xhArr;") :> <<"U+27FA">>) @@
    (Chars("xharr;") :> <<"U+27F7">>))))) @@
    ((((Chars("xi;") :> <<"U+03BE">>) @@ (Chars("xlArr;") :> <<"U+27F8">>)) @@
    ((Chars("xlarr;") :> <<"U+27F5">>) @@
    (Chars("xmap;") :> <<"U+27FC">>))) @@
    (((Chars("xnis;") :> <<"U+22FB">>) @@
    (Chars("xodot;") :> <<"U+2A00">>)) @@
    ((Chars("xopf;") :> <<"U+1D569">>) @@
    ((Chars("xoplus;") :> <<"U+2A01">>) @@
    (Chars("xotime;") :> <<"U+2A02">>))))))) @@
    ((((((Chars("xrArr;") :> <<"U+27F9">>) @@
    (Chars("xrarr;") :> <<"U+27F6">>)) @@
    ((Chars("xscr;") :> <<"U+1D4CD">>) @@
    (Chars("xsqcup;") :> <<"U+2A06">>))) @@
    (((Chars("xuplus;") :> <<"U+2A04">>) @@
    (Chars("xutri;") :> <<"U+25B3">>)) @@ ((Chars("xvee;") :> <<"U+22C1">>) @@
    (Chars("xwedge;") :> <<"U+22C0">>)))) @@
    ((((Chars("yacute") :> <<"U+00FD">>) @@
    (Chars("yacute;") :> <<"U+00FD">>)) @@
    ((Chars("yacy;") :> <<"U+044F">>) @@
    (Chars("ycirc;") :> <<"U+0177">>))) @@
    (((Chars("ycy;") :> <<"U+044B">>) @@ (Chars("yen") :> <<"U+00A5">>)) @@
    ((Chars("yen;") :> <<"U+00A5">>) @@ ((Chars("yfr;") :> <<"U+1D536">>) @@
    (Chars("yicy;") :> <<"U+0457">>)))))) @@
    (((((Chars("yopf;") :> <<"U+1D56A">>) @@
    (Chars("yscr;") :> <<"U+1D4CE">>)) @@ ((Chars("yucy;") :> <<"U+044E">>) @@
    (Chars("yuml") :> <<"U+00FF">>))) @@ (((Chars("yuml;") :> <<"U+00FF">>) @@
    (Chars("zacute;") :> <<"U+017A">>)) @@
    ((Chars("zcaron;") :> <<"U+017E">>) @@ ((Chars("zcy;") :> <<"U+0437">>) @@
    (Chars("zdot;") :> <<"U+017C">>))))) @@
    ((((Chars("zeetrf;") :> <<"U+2128">>) @@
    (Chars("zeta;") :> <<"U+03B6">>)) @@ ((Chars("zfr;") :> <<"U+1D537">>) @@
    (Chars("zhcy;") :> <<"U+0436">>))) @@
    (((Chars("zigrarr;") :> <<"U+21DD">>) @@
    (Chars("zopf;") :> <<"U+1D56B">>)) @@
    ((Chars("zscr;") :> <<"U+1D4CF">>) @@ ((Chars("zwj;") :> <<"U+200D">>) @@
    (Chars("zwnj;") :> <<"U+200C">>))))))))))))

\* [^\t\n\f <&#;] of _charref
name_stops == {"\t", "\n", "\f", " ", "<", "&", "#", ";"}

\* the length of the run of characters of the set from position i, at most max
Run(s, set, i, max) ==
    LET last == IF i + max - 1 < Len(s) THEN i + max - 1 ELSE Len(s)
        stop == Least({k \in i..last : s[k] \notin set})
    IN  IF last < i THEN 0
        ELSE IF stop = 0 THEN last - i + 1
        ELSE stop - i

\* the length of the run of characters outside the set from position i, at most max
RunOutside(s, set, i, max) ==
    LET last == IF i + max - 1 < Len(s) THEN i + max - 1 ELSE Len(s)
        stop == Least({k \in i..last : s[k] \in set})
    IN  IF last < i THEN 0
        ELSE IF stop = 0 THEN last - i + 1
        ELSE stop - i

MaxNameLen == 32

\* _invalid_charrefs: the code point each of these numbers is replaced by
invalid_charrefs ==
    (0 :> 65533) @@ (13 :> 13) @@ (128 :> 8364) @@ (129 :> 129) @@
    (130 :> 8218) @@ (131 :> 402) @@ (132 :> 8222) @@ (133 :> 8230) @@
    (134 :> 8224) @@ (135 :> 8225) @@ (136 :> 710) @@ (137 :> 8240) @@
    (138 :> 352) @@ (139 :> 8249) @@ (140 :> 338) @@ (141 :> 141) @@
    (142 :> 381) @@ (143 :> 143) @@ (144 :> 144) @@ (145 :> 8216) @@
    (146 :> 8217) @@ (147 :> 8220) @@ (148 :> 8221) @@ (149 :> 8226) @@
    (150 :> 8211) @@ (151 :> 8212) @@ (152 :> 732) @@ (153 :> 8482) @@
    (154 :> 353) @@ (155 :> 8250) @@ (156 :> 339) @@ (157 :> 157) @@
    (158 :> 382) @@ (159 :> 376)

\* _invalid_codepoints
invalid_codepoints ==
    (1..8) \cup (14..31) \cup (127..159) \cup (64976..65007) \cup {11}
    \cup {plane * 65536 + last : plane \in 0..16, last \in {65534, 65535}}

\* _replace_charref, the numeric branch: the text for the number num = int(...);
\* the ValueError of int(), for which num is -1, is not caught
numeric_charref(num) ==
    IF num < 0 THEN Raised
    ELSE IF num \in DOMAIN invalid_charrefs THEN chr(invalid_charrefs[num])
    ELSE IF num \in 55296..57343 \/ num > 1114111 THEN <<"U+FFFD">>
    ELSE IF num \in invalid_codepoints THEN <<>>
    ELSE chr(num)

\* The last position of the character reference that starts with the "&" at
\* position i, 0 when _charref does not match there:
\* &(#[0-9]+;?|#[xX][0-9a-fA-F]+;?|[^\t\n\f <&#;]{1,32};?)
charref_end(s, i) ==
    LET semi(e) == IF e + 1 <= Len(s) /\ s[e + 1] = ";" THEN e + 1 ELSE e
        hash == i + 1 <= Len(s) /\ s[i + 1] = "#"
        nd == IF hash THEN Run(s, digits, i + 2, Len(s)) ELSE 0
        nx == IF hash /\ i + 2 <= Len(s) /\ s[i + 2] \in {"x", "X"}
              THEN Run(s, hexdigits, i + 3, Len(s)) ELSE 0
        nn == RunOutside(s, name_stops, i + 1, MaxNameLen)
    IN  IF nd > 0 THEN semi(i + 1 + nd)
        ELSE IF nx > 0 THEN semi(i + 2 + nx)
        ELSE IF nn > 0 THEN semi(i + nn)
        ELSE 0

\* the longest x in 2..max with g[:x] in html5, 0 when there is none
RECURSIVE longest_prefix(_, _)
longest_prefix(g, x) ==
    IF x < 2 THEN 0
    ELSE IF SubSeq(g, 1, x) \in DOMAIN html5 THEN x
    ELSE longest_prefix(g, x - 1)

\* _replace_charref, the branch of the names
named_charref(g) ==
    IF g \in DOMAIN html5 THEN html5[g]
    ELSE LET x == longest_prefix(g, Len(g) - 1)
         IN  IF x > 0 THEN html5[SubSeq(g, 1, x)] \o From(g, x + 1)
             ELSE <<"&">> \o g

\* g.rstrip(';')
rstrip_semicolon(g) == SubSeq(g, 1, Greatest({k \in 1..Len(g) : g[k] # ";"}))

\* _replace_charref, on the text g matched after the "&"
replace_charref(g) ==
    IF g[1] = "#"
    THEN IF g[2] \in {"x", "X"}
         THEN numeric_charref(IntValue(rstrip_semicolon(g), 3,
                                       Len(rstrip_semicolon(g)), 16))
         ELSE numeric_charref(IntValue(rstrip_semicolon(g), 2,
                                       Len(rstrip_semicolon(g)), 10))
    ELSE named_charref(g)

\* _charref.sub(_replace_charref, s) from position i on
RECURSIVE sub_charref(_, _)
sub_charref(s, i) ==
    LET m == Least({k \in i..Len(s) : s[k] = "&" /\ charref_end(s, k) > 0})
    IN  IF m = 0 THEN From(s, i)
        ELSE concat(SubSeq(s, i, m - 1),
                    concat(replace_charref(SubSeq(s, m + 1, charref_end(s, m))),
                           sub_charref(s, charref_end(s, m) + 1)))

unescape(s) == IF find(s, "&", 1) = 0 THEN s ELSE sub_charref(s, 1)

(***************************************************************************)
(* normalize_text                                                          *)
(***************************************************************************)
\* The position of the ">" that ends a match of <[^>]+> starting at the "<"
\* at position i, 0 when there is no match
tag_end(s, i) ==
    IF i + 1 <= Len(s) /\ s[i + 1] # ">" THEN find(s, ">", i + 2) ELSE 0

\* re.sub(r"<[^>]+>", " ", s) from position i on
RECURSIVE sub_tags(_, _)
sub_tags(s, i) ==
    LET m == Least({k \in i..Len(s) : s[k] = "<" /\ tag_end(s, k) > 0})
    IN  IF m = 0 THEN From(s, i)
        ELSE SubSeq(s, i, m - 1) \o <<" ">> \o sub_tags(s, tag_end(s, m) + 1)

\* re.sub(r"\s+", " ", s) from position i on
RECURSIVE sub_spaces(_, _)
sub_spaces(s, i) ==
    LET m == Least({k \in i..Len(s) : IsSpace(s[k])})
    IN  IF m = 0 THEN From(s, i)
        ELSE SubSeq(s, i, m - 1) \o <<" ">>
             \o sub_spaces(s, m + Run(s, whitespace, m, Len(s)))

\* str.strip()
strip(s) ==
    LET keep == {k \in 1..Len(s) : ~IsSpace(s[k])}
    IN  IF keep = {} THEN <<>> ELSE SubSeq(s, Least(keep), Greatest(keep))

\* a slip: whitespace is collapsed and trimmed before the tags are replaced
\* text.lower(), when making the text raised nothing
lowered(text) == IF text = Raised THEN Raised ELSE lower(text)

\* re.sub(r"\s+", " ", text).strip().lower(), when making the text raised nothing
collapsed(text) ==
    IF text = Raised THEN Raised ELSE lower(strip(sub_spaces(text, 1)))

normalize_text_spaces_first(text) ==
    lowered(unescape(sub_tags(strip(sub_spaces(text, 1)), 1)))

\* Raised when htmllib.unescape raises
normalize_text(text) == collapsed(unescape(sub_tags(text, 1)))

(***************************************************************************)
(* The anchor extractor: re.findall of                                     *)
(*   <a\s+[^>]*href="([^"]+)"[^>]*>(.*?)</a>    IGNORECASE | DOTALL        *)
(***************************************************************************)
NoMatch == [matched |-> FALSE]

\* the literal parts of the pattern, in lower case
anchor_open == Chars("<a")

href_attribute == Chars("href=\"")

anchor_close == Chars("</a>")

\* a slip: (.*) for (.*?), so that the content runs to the last closing tag
find_closing_last(html, i) ==
    Greatest({k \in i..Len(html) : MatchAtIgnoreCase(html, anchor_close, k)})

\* the first position >= i where the closing tag </a> starts, 0 when there is none
find_closing(html, i) ==
    Least({k \in i..Len(html) : MatchAtIgnoreCase(html, anchor_close, k)})

\* The match, once every part of the pattern has its place: href=" at p, the
\* closing quote at q, the ">" of the opening tag at r, </a> at t.
matched_anchor(html, i, p, q, r, t) ==
    IF t > 0
    THEN [matched |-> TRUE, start |-> i, end |-> t + 3,
          href |-> SubSeq(html, p + 6, q - 1),
          inner |-> SubSeq(html, r + 1, t - 1)]
    ELSE NoMatch

\* [^>]*> runs to the first ">" after the quote, (.*?)</a> to the first
\* closing tag after that
match_from_quote(html, i, p, q, r) ==
    matched_anchor(html, i, p, q, r,
                   IF r > 0 THEN find_closing(html, r + 1) ELSE 0)

\* The rest of the pattern, with href=" matched at position p: ([^"]+) runs to
\* the first quote and is not empty
match_from_href(html, i, p) ==
    LET q == find(html, "\"", p + 6)
    IN  match_from_quote(html, i, p, q,
                         IF q > p + 6 THEN find(html, ">", q + 1) ELSE 0)

\* the last position in first..last where href=" starts and the rest of the
\* pattern matches, 0 when there is none
last_href(html, i, first, last) ==
    Greatest({p \in first..last :
                 /\ MatchAtIgnoreCase(html, href_attribute, p)
                 /\ match_from_href(html, i, p).matched})

\* \s+[^>]*href=": [^>]* is greedy and gives back characters until href="
\* follows, so of the places of href=" before the first ">" the last one
\* from which the rest of the pattern matches is taken
match_attributes(html, i, ws, gt) ==
    LET p == IF ws = 0 THEN 0
             ELSE last_href(html, i, i + 2 + ws,
                            IF gt = 0 THEN Len(html) ELSE gt - 1)
    IN  IF p = 0 THEN NoMatch ELSE match_from_href(html, i, p)

\* a match of the pattern starting at position i
match_anchor(html, i) ==
    IF ~MatchAtIgnoreCase(html, anchor_open, i) THEN NoMatch
    ELSE match_attributes(html, i, Run(html, whitespace, i + 2, Len(html)),
             find(html, ">", i + 2 + Run(html, whitespace, i + 2, Len(html))))

\* re.finditer: the non-overlapping matches from position i on, left to right
RECURSIVE finditer(_, _)
finditer(html, i) ==
    LET start == Least({k \in i..Len(html) : match_anchor(html, k).matched})
    IN  IF start = 0 THEN <<>>
        ELSE <<match_anchor(html, start)>>
             \o finditer(html, match_anchor(html, start).end + 1)

\* re.findall: the (href, inner) groups of each match
findall(html) ==
    LET ms == finditer(html, 1)
    IN  [k \in 1..Len(ms) |-> <<ms[k].href, ms[k].inner>>]

(***************************************************************************)
(* urllib.parse.urljoin                                                    *)
(***************************************************************************)
uses_relative ==
    {Chars(""), Chars("ftp"), Chars("http"), Chars("gopher"), Chars("nntp"),
     Chars("imap"), Chars("wais"), Chars("file"), Chars("https"),
     Chars("shttp"), Chars("mms"), Chars("prospero"), Chars("rtsp"),
     Chars("rtsps"), Chars("rtspu"), Chars("sftp"), Chars("svn"),
     Chars("svn+ssh"), Chars("ws"), Chars("wss")}

uses_netloc ==
    {Chars(""), Chars("ftp"), Chars("http"), Chars("gopher"), Chars("nntp"),
     Chars("telnet"), Chars("imap"), Chars("wais"), Chars("file"),
     Chars("mms"), Chars("https"), Chars("shttp"), Chars("snews"),
     Chars("prospero"), Chars("rtsp"), Chars("rtsps"), Chars("rtspu"),
     Chars("rsync"), Chars("svn"), Chars("svn+ssh"), Chars("sftp"),
     Chars("nfs"), Chars("git"), Chars("git+ssh"), Chars("ws"), Chars("wss")}

uses_params ==
    {Chars(""), Chars("ftp"), Chars("hdl"), Chars("prospero"), Chars("http"),
     Chars("imap"), Chars("https"), Chars("shttp"), Chars("rtsp"),
     Chars("rtsps"), Chars("rtspu"), Chars("sip"), Chars("sips"),
     Chars("mms"), Chars("sftp"), Chars("tel")}

IsSchemeChar(c) == IsAlpha(c) \/ IsDigit(c) \/ c \in {"+", "-", "."}

\* _WHATWG_C0_CONTROL_OR_SPACE: the characters of code points 0..32
c0_or_space == {chr(num)[1] : num \in 0..32}

\* _UNSAFE_URL_BYTES_TO_REMOVE
IsUnsafeUrlByte(c) == c \in {"\t", "\r", "\n"}

Has(s, c) == find(s, c, 1) > 0

ValueError == [kind |-> "raise", exc |-> "ValueError"]

\* url.lstrip(_WHATWG_C0_CONTROL_OR_SPACE), then the unsafe bytes removed
clean_url(url) ==
    SelectSeq(From(url, 1 + Run(url, c0_or_space, 1, Len(url))),
              LAMBDA c : ~IsUnsafeUrlByte(c))

\* str.split(sep) for a one-character separator, from position i on
RECURSIVE split(_, _, _)
split(s, sep, i) ==
    LET j == find(s, sep, i)
    IN  IF j = 0 THEN <<From(s, i)>>
        ELSE <<SubSeq(s, i, j - 1)>> \o split(s, sep, j + 1)

\* sep.join(parts)
RECURSIVE join(_, _)
join(sep, parts) ==
    IF Len(parts) = 0 THEN <<>>
    ELSE IF Len(parts) = 1 THEN parts[1]
    ELSE parts[1] \o sep \o join(sep, Tail(parts))

\* the first position >= i of one of "/", "?", "#"; Len(s) + 1 when there is none
netloc_end(s, i) ==
    LET delim == Least({k \in i..Len(s) : s[k] \in {"/", "?", "#"}})
    IN  IF delim = 0 THEN (IF i > Len(s) THEN i ELSE Len(s) + 1) ELSE delim

\* netloc.partition('[')[2].partition(']')[0]
bracketed_host(netloc) ==
    LET rest == From(netloc, find(netloc, "[", 1) + 1)
        close == find(rest, "]", 1)
    IN  IF close = 0 THEN rest ELSE SubSeq(rest, 1, close - 1)

\* IPv4Address._parse_octet raises no fault: one to three ASCII digits, no
\* leading zero, 255 at most
is_octet(octet) ==
    /\ Len(octet) \in 1..3
    /\ \A k \in 1..Len(octet) : IsDigit(octet[k])
    /\ (Len(octet) > 1 => octet[1] # "0")
    /\ IntValue(octet, 1, Len(octet), 10) <= 255

four_octets(octets) == Len(octets) = 4 /\ \A k \in 1..4 : is_octet(octets[k])

\* ipaddress.IPv4Address(address) raises no fault
is_ipv4(address) == ~Has(address, "/") /\ four_octets(split(address, ".", 1))

\* IPv6Address._parse_hextet raises no fault: one to four hexadecimal digits
is_hextet(hextet) ==
    /\ Len(hextet) \in 1..4
    /\ \A k \in 1..Len(hextet) : IsHexDigit(hextet[k])

\* IPv6Address._ip_int_from_string, once an IPv4 suffix has been replaced:
\* three to nine parts, at most one inner empty part (the "::"); with it a
\* leading or trailing ":" has to belong to it and at most seven parts are
\* given, without it there are eight; the parts given are hextets
hextets_accepted(parts, n, skips, skip) ==
    /\ n >= 3 /\ n <= 9
    /\ Cardinality(skips) <= 1
    /\ IF skips # {}
       THEN LET parts_hi == IF parts[1] = <<>> THEN skip - 2 ELSE skip - 1
                parts_lo == IF parts[n] = <<>> THEN n - skip - 1 ELSE n - skip
            IN  /\ parts[1] = <<>> => parts_hi = 0
                /\ parts[n] = <<>> => parts_lo = 0
                /\ 8 - (parts_hi + parts_lo) >= 1
                /\ \A k \in 1..parts_hi : is_hextet(parts[k])
                /\ \A k \in (n - parts_lo + 1)..n : is_hextet(parts[k])
       ELSE n = 8 /\ \A k \in 1..8 : is_hextet(parts[k])

ipv6_parts_accepted(parts) ==
    hextets_accepted(parts, Len(parts),
                     {k \in 2..(Len(parts) - 1) : parts[k] = <<>>},
                     Least({k \in 2..(Len(parts) - 1) : parts[k] = <<>>}))

\* IPv6Address._ip_int_from_string raises no fault, given ip_str.split(':'):
\* a last part with a "." is an IPv4 address, and stands for two hextets
ipv4_suffix_accepted(parts) ==
    /\ Len(parts) >= 3
    /\ IF Has(parts[Len(parts)], ".")
       THEN /\ is_ipv4(parts[Len(parts)])
            /\ ipv6_parts_accepted(SubSeq(parts, 1, Len(parts) - 1)
                                   \o << <<"0">>, <<"0">> >>)
       ELSE ipv6_parts_accepted(parts)

\* IPv6Address._split_scope_id raises no fault: a "%" is followed by a scope
\* id that is not empty and holds no "%"
scope_id_accepted(address, percent) ==
    percent > 0 =>
        (percent < Len(address) /\ find(address, "%", percent + 1) = 0)

\* ipaddress.IPv6Address(address) raises no fault
is_ipv6(address) ==
    /\ ~Has(address, "/")
    /\ scope_id_accepted(address, find(address, "%", 1))
    /\ ipv4_suffix_accepted(
           split(IF Has(address, "%")
                 THEN SubSeq(address, 1, find(address, "%", 1) - 1)
                 ELSE address, ":", 1))

\* re.match(r"\Av[a-fA-F0-9]+\..+\Z", hostname), for a hostname that starts
\* with "v" and goes on with n hexadecimal digits
is_ipvfuture(hostname, n) ==
    /\ n > 0
    /\ Len(hostname) > n + 2
    /\ hostname[n + 2] = "."
    /\ \A k \in (n + 3)..Len(hostname) : hostname[k] # "\n"

\* _check_bracketed_host raises ValueError: an IPvFuture literal is invalid,
\* ipaddress.ip_address raises, or it gives an IPv4 address
bad_host(hostname) ==
    IF Len(hostname) > 0 /\ hostname[1] = "v"
    THEN ~is_ipvfuture(hostname, Run(hostname, hexdigits, 2, Len(hostname)))
    ELSE is_ipv4(hostname) \/ ~is_ipv6(hostname)

bad_bracketed_host(netloc) ==
    Has(netloc, "[") /\ Has(netloc, "]") /\ bad_host(bracketed_host(netloc))

\* The characters outside ASCII whose NFKC form holds one of "/", "?", "#",
\* "@", ":" (U+2100, the account-of sign, becomes "a/c").
nfkc_unsafe ==
    {chr(num)[1] :
        num \in {8263, 8264, 8265, 8448, 8449, 8453, 8454, 10868, 65043,
                 65046, 65109, 65110, 65119, 65131, 65283, 65295, 65306,
                 65311, 65312}}

\* _checknetloc raises ValueError: the netloc, which holds none of "/", "?",
\* "#", has a character that NFKC normalization turns into one of "/", "?",
\* "#", "@", ":"
netloc_unsafe(netloc) == \E k \in 1..Len(netloc) : netloc[k] \in nfkc_unsafe

\* The definitions below follow urlsplit, urlparse and urljoin statement by
\* statement; each takes what the statements before it computed.

\* urlsplit, the end: the query is what follows the first "?", and
\* _checknetloc(netloc) has the last word
split_query(scheme, netloc, url, fragment) ==
    LET m == find(url, "?", 1)
    IN  IF netloc_unsafe(netloc) THEN ValueError
        ELSE [kind |-> "ok", scheme |-> scheme, netloc |-> netloc,
              path |-> IF m > 0 THEN SubSeq(url, 1, m - 1) ELSE url,
              query |-> IF m > 0 THEN From(url, m + 1) ELSE <<>>,
              fragment |-> fragment]

\* urlsplit: the fragment is what follows the first "#"
split_fragment(scheme, netloc, url) ==
    LET h == find(url, "#", 1)
    IN  split_query(scheme, netloc,
                    IF h > 0 THEN SubSeq(url, 1, h - 1) ELSE url,
                    IF h > 0 THEN From(url, h + 1) ELSE <<>>)

\* urlsplit: the checks of a netloc's brackets, which raise ValueError
check_netloc(scheme, netloc, url) ==
    IF \/ (Has(netloc, "[") /\ ~Has(netloc, "]"))
       \/ (Has(netloc, "]") /\ ~Has(netloc, "["))
       \/ bad_bracketed_host(netloc)
    THEN ValueError
    ELSE split_fragment(scheme, netloc, url)

\* urlsplit: after "//" the netloc runs to the first of "/", "?", "#"
split_netloc(scheme, url) ==
    IF MatchAt(url, Chars("//"), 1)
    THEN check_netloc(scheme, SubSeq(url, 3, netloc_end(url, 3) - 1),
                      From(url, netloc_end(url, 3)))
    ELSE split_fragment(scheme, <<>>, url)

\* urlsplit: the scheme is what precedes the first ":", when it starts with a
\* letter and holds scheme characters only; it is lower-cased
split_scheme(url, scheme0) ==
    LET i == find(url, ":", 1)
    IN  IF i > 1 /\ IsAlpha(url[1]) /\ \A k \in 1..(i - 1) : IsSchemeChar(url[k])
        THEN split_netloc(lower(SubSeq(url, 1, i - 1)), From(url, i + 1))
        ELSE split_netloc(scheme0, url)

\* urlsplit(url, scheme): [kind |-> "ok", scheme, netloc, path, query, fragment]
\* or ValueError
urlsplit(url, scheme0) == split_scheme(clean_url(url), scheme0)

\* _splitparams(url): <<url, params>>, split at the first ";" after the
\* last "/"; with no "/" and no ";" str.find gives -1, and the two slices are
\* url[:-1] and url
splitparams(url) ==
    LET last == Greatest({k \in 1..Len(url) : url[k] = "/"})
        i == find(url, ";", IF last = 0 THEN 1 ELSE last)
    IN  IF i > 0 THEN <<SubSeq(url, 1, i - 1), From(url, i + 1)>>
        ELSE IF last > 0 THEN <<url, <<>> >>
        ELSE <<SubSeq(url, 1, Len(url) - 1), url>>

\* urlparse, given urlsplit's result: the params are taken off the path
take_params(v) ==
    IF v.kind = "raise" THEN v
    ELSE IF v.scheme \in uses_params /\ Has(v.path, ";")
    THEN [kind |-> "ok", scheme |-> v.scheme, netloc |-> v.netloc,
          path |-> splitparams(v.path)[1], params |-> splitparams(v.path)[2],
          query |-> v.query, fragment |-> v.fragment]
    ELSE [kind |-> "ok", scheme |-> v.scheme, netloc |-> v.netloc,
          path |-> v.path, params |-> <<>>,
          query |-> v.query, fragment |-> v.fragment]

urlparse(url, scheme0) == take_params(urlsplit(url, scheme0))

\* urlunsplit, the end: the scheme, the query and the fragment are put back
add_scheme_query_fragment(scheme, url, query, fragment) ==
    (IF Len(scheme) > 0 THEN scheme \o <<":">> ELSE <<>>)
    \o url
    \o (IF Len(query) > 0 THEN <<"?">> \o query ELSE <<>>)
    \o (IF Len(fragment) > 0 THEN <<"#">> \o fragment ELSE <<>>)

urlunsplit(scheme, netloc, url, query, fragment) ==
    add_scheme_query_fragment(scheme,
        IF \/ Len(netloc) > 0
           \/ (Len(scheme) > 0 /\ scheme \in uses_netloc
               /\ ~MatchAt(url, Chars("//"), 1))
        THEN Chars("//") \o netloc
             \o (IF Len(url) > 0 /\ url[1] # "/" THEN <<"/">> ELSE <<>>)
             \o url
        ELSE url,
        query, fragment)

urlunparse(scheme, netloc, url, params, query, fragment) ==
    urlunsplit(scheme, netloc,
               IF Len(params) > 0 THEN url \o <<";">> \o params ELSE url,
               query, fragment)

\* the loop of urljoin over the segments: ".." pops, "." is skipped
RECURSIVE resolve_segments(_, _, _)
resolve_segments(segments, k, resolved) ==
    IF k > Len(segments) THEN resolved
    ELSE IF segments[k] = Chars("..")
    THEN resolve_segments(segments, k + 1,
             IF Len(resolved) > 0 THEN SubSeq(resolved, 1, Len(resolved) - 1)
             ELSE resolved)
    ELSE IF segments[k] = Chars(".")
    THEN resolve_segments(segments, k + 1, resolved)
    ELSE resolve_segments(segments, k + 1, Append(resolved, segments[k]))

\* '/'.join(resolved_path) or '/', a last "." or ".." leaving an empty segment
joined_path(segments, resolved) ==
    LET joined == join(<<"/">>,
                       IF segments[Len(segments)] \in {Chars("."), Chars("..")}
                       THEN Append(resolved, <<>>) ELSE resolved)
    IN  IF joined = <<>> THEN <<"/">> ELSE joined

resolved_path(segments) ==
    joined_path(segments, resolve_segments(segments, 1, <<>>))

\* segments[1:-1] = filter(None, segments[1:-1])
drop_empty_inner(segments) ==
    IF Len(segments) <= 2 THEN segments
    ELSE <<segments[1]>>
         \o SelectSeq(SubSeq(segments, 2, Len(segments) - 1), LAMBDA g : g # <<>>)
         \o <<segments[Len(segments)]>>

\* base_parts = bpath.split('/'), less its last part when that is not empty
base_parts(bsplit) ==
    IF bsplit[Len(bsplit)] # <<>> THEN SubSeq(bsplit, 1, Len(bsplit) - 1)
    ELSE bsplit

\* the path of the joined URL, from the base's path and a non-empty path
merge_paths(bpath, path) ==
    IF Len(path) > 0 /\ path[1] = "/" THEN resolved_path(split(path, "/", 1))
    ELSE resolved_path(drop_empty_inner(base_parts(split(bpath, "/", 1))
                                        \o split(path, "/", 1)))

\* urljoin, with both URLs parsed and the netloc settled
join_relative(b, u, netloc) ==
    IF Len(u.path) = 0 /\ Len(u.params) = 0
    THEN urlunparse(u.scheme, netloc, b.path, b.params,
                    IF Len(u.query) = 0 THEN b.query ELSE u.query, u.fragment)
    ELSE urlunparse(u.scheme, netloc, merge_paths(b.path, u.path),
                    u.params, u.query, u.fragment)

Returned(v) == [kind |-> "return", value |-> v]

\* urljoin, with the base parsed as b and the url as u
join_parsed(url, b, u) ==
    IF u.kind = "raise" THEN u
    ELSE IF u.scheme # b.scheme \/ u.scheme \notin uses_relative
    THEN Returned(url)
    ELSE IF u.scheme \in uses_netloc /\ Len(u.netloc) > 0
    THEN Returned(urlunparse(u.scheme, u.netloc, u.path, u.params, u.query,
                             u.fragment))
    ELSE Returned(join_relative(b, u, IF u.scheme \in uses_netloc THEN b.netloc
                                      ELSE u.netloc))

\* urljoin, with the base parsed as b
join_base(url, b) ==
    IF b.kind = "raise" THEN b ELSE join_parsed(url, b, urlparse(url, b.scheme))

\* a slip: the base URL is prefixed to every href, absolute or not
urljoin_concat(base, url) == Returned(base \o url)

\* urljoin(base, url): [kind |-> "return", value |-> text] or ValueError
urljoin(base, url) ==
    IF base = <<>> THEN Returned(url)
    ELSE IF url = <<>> THEN Returned(base)
    ELSE join_base(url, urlparse(base, <<>>))

(***************************************************************************)
(* resolve_musl_runtime_url                                                *)
(***************************************************************************)
SystemExit(code) == [kind |-> "exit", code |-> code]

\* the resolver has not been called
NotCalled == [kind |-> "none"]

\* a slip: the href is used as written, its character references undecoded
href_verbatim(href) == href

\* href_unescaped = htmllib.unescape(href)
href_unescaped(href) == unescape(href)

\* haystack = (href_unescaped + " " + normalize_text(inner)).lower(); Raised
\* when decoding the href (line 50) or normalizing the content raises
haystack(href, inner) ==
    lowered(concat(href_unescaped(href), concat(<<" ">>, normalize_text(inner))))

\* a slip: one keyword is enough
matches_either(hay, needle) ==
    Contains(hay, Chars("runtime")) \/ Contains(hay, needle)

\* "runtime" in haystack and needle in haystack
matches(hay, needle) ==
    Contains(hay, Chars("runtime")) /\ Contains(hay, needle)

\* a slip: the loop does not stop at the first match, the last one wins
scan_keep_last(anchors, k, home_url, needle) ==
    LET hits == {j \in k..Len(anchors) :
                    matches(haystack(anchors[j][1], anchors[j][2]), needle)}
    IN  IF \E j \in k..Len(anchors) :
               haystack(anchors[j][1], anchors[j][2]) = Raised
        THEN ValueError
        ELSE IF hits = {} THEN SystemExit(1)
        ELSE urljoin(home_url,
                 href_unescaped(anchors[CHOOSE j \in hits : \A o \in hits : j >= o][1]))

RECURSIVE scan_anchors(_, _, _, _)

\* The body of the loop for anchor k, whose haystack is hay: the ValueError of
\* lines 50 and 51, the return of line 53, or the next anchor.
scan_anchor(hay, anchors, k, home_url, needle) ==
    IF hay = Raised THEN ValueError
    ELSE IF matches(hay, needle)
    THEN urljoin(home_url, href_unescaped(anchors[k][1]))
    ELSE scan_anchors(anchors, k + 1, home_url, needle)

\* for href, inner in anchors: ... return urljoin(...); after the loop sys.exit(1)
scan_anchors(anchors, k, home_url, needle) ==
    IF k > Len(anchors) THEN SystemExit(1)
    ELSE scan_anchor(haystack(anchors[k][1], anchors[k][2]),
                     anchors, k, home_url, needle)

\* [kind |-> "return", value], [kind |-> "exit", code] or [kind |-> "raise", exc]:
\* the ValueError is urljoin's, or that of decoding a character reference
resolve_musl_runtime_url(html, home_url, needle_arch) ==
    scan_anchors(findall(html), 1, home_url, lower(needle_arch))

(***************************************************************************)
(* main: the inputs and what is done with the resolver's outcome           *)
(***************************************************************************)
\* the empty list, which is what parse_args makes of the explicit argument "--"
EmptyList == <<"[]">>

\* Python's truth of a value of the namespace or of the environment
Truthy(v) == v # None /\ v # <<>> /\ v # EmptyList

UsageError == [kind |-> "error"]

Selected(v) == [kind |-> "ok", value |-> v]

\* a slip: the environment variable is looked at before the flag
select_html_env_first(args, env, stdin) ==
    IF env.HTML # None THEN Selected(env.HTML)
    ELSE IF Truthy(args.html) THEN Selected(args.html)
    ELSE IF ~stdin.isatty THEN Selected(stdin.data)
    ELSE UsageError

\* if args.html / elif "HTML" in os.environ / elif not sys.stdin.isatty() / else
select_html(args, env, stdin) ==
    IF Truthy(args.html) THEN Selected(args.html)
    ELSE IF env.HTML # None THEN Selected(env.HTML)
    ELSE IF ~stdin.isatty THEN Selected(stdin.data)
    ELSE UsageError

\* a slip: a missing value is passed on as the empty text
select_unchecked(flag, variable) ==
    Selected(IF Truthy(flag) THEN flag
             ELSE IF variable = None THEN <<>> ELSE variable)

\* value = flag or os.environ.get(NAME); if not value: parser.error(...)
select_value(flag, variable) ==
    LET value == IF Truthy(flag) THEN flag ELSE variable
    IN  IF Truthy(value) THEN Selected(value) ELSE UsageError

(***************************************************************************)
(* main: parser.parse_args(), argparse on the command line.  The parser    *)
(* has the options -h, --help, --html, --home-url and --needle-arch and no *)
(* positional argument; the three flags take one argument of type str.     *)
(***************************************************************************)
\* The ranges <<first, last>> of the decimal digits, the characters of \d.
decimal_ranges ==
    {<<48, 57>>, <<1632, 1641>>, <<1776, 1785>>, <<1984, 1993>>,
     <<2406, 2415>>, <<2534, 2543>>, <<2662, 2671>>, <<2790, 2799>>,
     <<2918, 2927>>, <<3046, 3055>>, <<3174, 3183>>, <<3302, 3311>>,
     <<3430, 3439>>, <<3558, 3567>>, <<3664, 3673>>, <<3792, 3801>>,
     <<3872, 3881>>, <<4160, 4169>>, <<4240, 4249>>, <<6112, 6121>>,
     <<6160, 6169>>, <<6470, 6479>>, <<6608, 6617>>, <<6784, 6793>>,
     <<6800, 6809>>, <<6992, 7001>>, <<7088, 7097>>, <<7232, 7241>>,
     <<7248, 7257>>, <<42528, 42537>>, <<43216, 43225>>, <<43264, 43273>>,
     <<43472, 43481>>, <<43504, 43513>>, <<43600, 43609>>, <<44016, 44025>>,
     <<65296, 65305>>, <<66720, 66729>>, <<68912, 68921>>, <<69734, 69743>>,
     <<69872, 69881>>, <<69942, 69951>>, <<70096, 70105>>, <<70384, 70393>>,
     <<70736, 70745>>, <<70864, 70873>>, <<71248, 71257>>, <<71360, 71369>>,
     <<71472, 71481>>, <<71904, 71913>>, <<72016, 72025>>, <<72784, 72793>>,
     <<73040, 73049>>, <<73120, 73129>>, <<92768, 92777>>, <<92864, 92873>>,
     <<93008, 93017>>, <<120782, 120831>>, <<123200, 123209>>,
     <<123632, 123641>>, <<125264, 125273>>, <<130032, 130041>>}

\* a character of \d
IsDecimal(c) ==
    IF Len(c) = 1 THEN c \in digits ELSE InRanges(ord(c), decimal_ranges)

\* str.startswith
startswith(s, prefix) ==
    Len(prefix) <= Len(s) /\ SubSeq(s, 1, Len(prefix)) = prefix

\* parser._option_string_actions: the option strings in the order in which
\* they were added, each with the dest of its action
option_string_actions ==
    <<[option_string |-> Chars("-h"), dest |-> "help"],
      [option_string |-> Chars("--help"), dest |-> "help"],
      [option_string |-> Chars("--html"), dest |-> "html"],
      [option_string |-> Chars("--home-url"), dest |-> "home_url"],
      [option_string |-> Chars("--needle-arch"), dest |-> "needle_arch"]>>

\* the options of the parser
options == {option_string_actions[k] : k \in 1..Len(option_string_actions)}

\* the dest of no action, for an option string the parser does not have
NoAction == "None"

\* An argument string is a positional argument, the "--", an option tuple
\* (action, option_string, explicit_arg), or ambiguous.
OptionTuple(dest, option_string, explicit_arg) ==
    [kind |-> "O", dest |-> dest, option_string |-> option_string,
     explicit_arg |-> explicit_arg]

Positional ==
    [kind |-> "A", dest |-> NoAction, option_string |-> <<>>,
     explicit_arg |-> None]

DoubleDash ==
    [kind |-> "-", dest |-> NoAction, option_string |-> <<>>,
     explicit_arg |-> None]

Ambiguous ==
    [kind |-> "ambiguous", dest |-> NoAction, option_string |-> <<>>,
     explicit_arg |-> None]

all_decimal(s, i, j) == \A k \in i..j : IsDecimal(s[k])

\* '-\d+' or '-\d*\.\d+', all of s
negative_number(s) ==
    /\ Len(s) >= 2
    /\ s[1] = "-"
    /\ \/ all_decimal(s, 2, Len(s))
       \/ \E d \in 2..(Len(s) - 1) :
              s[d] = "." /\ all_decimal(s, 2, d - 1) /\ all_decimal(s, d + 1, Len(s))

\* parser._negative_number_matcher.match(arg_string), the pattern
\* '^-\d+$|^-\d*\.\d+$': its "$" also matches before a last line feed
negative_number_matcher(arg_string) ==
    \/ negative_number(arg_string)
    \/ /\ arg_string # <<>>
       /\ arg_string[Len(arg_string)] = "\n"
       /\ negative_number(SubSeq(arg_string, 1, Len(arg_string) - 1))

\* parser._get_option_tuples(option_string), of a string of two characters
\* or more that starts with "-": the options a string with two dashes
\* abbreviates, split at its first "="; the option of one letter that a
\* string with one dash starts with, the rest being its explicit argument
get_option_tuples(option_string) ==
    IF option_string[2] = "-"
    THEN LET eq == find(option_string, "=", 1)
             option_prefix == IF eq > 0 THEN SubSeq(option_string, 1, eq - 1)
                              ELSE option_string
             explicit_arg == IF eq > 0 THEN From(option_string, eq + 1)
                             ELSE None
         IN  {OptionTuple(a.dest, a.option_string, explicit_arg) :
                 a \in {b \in options : startswith(b.option_string, option_prefix)}}
    ELSE {OptionTuple(a.dest, a.option_string, From(option_string, 3)) :
             a \in {b \in options : b.option_string = SubSeq(option_string, 1, 2)}}
         \cup
         {OptionTuple(a.dest, a.option_string, None) :
             a \in {b \in options : /\ b.option_string # SubSeq(option_string, 1, 2)
                                   /\ startswith(b.option_string, option_string)}}

\* the option tuple of arg_string when its option tuples are option_tuples
one_option_tuple(arg_string, option_tuples) ==
    IF Cardinality(option_tuples) > 1 THEN Ambiguous
    ELSE IF Cardinality(option_tuples) = 1 THEN CHOOSE t \in option_tuples : TRUE
    ELSE IF negative_number_matcher(arg_string) THEN Positional
    ELSE IF \E k \in 1..Len(arg_string) : arg_string[k] = " " THEN Positional
    ELSE OptionTuple(NoAction, arg_string, None)

\* the options whose option string is option_string
named(option_string) == {a \in options : a.option_string = option_string}

\* parser._parse_optional(arg_string)
parse_optional(arg_string) ==
    LET eq == find(arg_string, "=", 1)
    IN  IF arg_string = <<>> THEN Positional
        ELSE IF arg_string[1] # "-" THEN Positional
        ELSE IF named(arg_string) # {}
        THEN OptionTuple((CHOOSE a \in named(arg_string) : TRUE).dest,
                         arg_string, None)
        ELSE IF Len(arg_string) = 1 THEN Positional
        ELSE IF eq > 0 /\ named(SubSeq(arg_string, 1, eq - 1)) # {}
        THEN OptionTuple(
                 (CHOOSE a \in named(SubSeq(arg_string, 1, eq - 1)) : TRUE).dest,
                 SubSeq(arg_string, 1, eq - 1), From(arg_string, eq + 1))
        ELSE one_option_tuple(arg_string, get_option_tuples(arg_string))

\* the index of the first "--" of arg_strings, after the last one when none
first_double_dash(arg_strings) ==
    LET k == Least({i \in 1..Len(arg_strings) : arg_strings[i] = Chars("--")})
    IN  IF k = 0 THEN Len(arg_strings) + 1 ELSE k

\* What arg_strings[i] is: every argument after "--" is positional.
option_tuple_at(arg_strings, i) ==
    IF i < first_double_dash(arg_strings) THEN parse_optional(arg_strings[i])
    ELSE IF i = first_double_dash(arg_strings) THEN DoubleDash
    ELSE Positional

\* how parse_args ends: it returns the namespace, or the help action prints
\* the help and exits, or parser.error is called
Parsed(namespace) == [kind |-> "ok", namespace |-> namespace]

HelpExit == [kind |-> "help"]

\* the namespace of the defaults
Defaults == [html |-> None, home_url |-> None, needle_arch |-> None]

\* parser._get_values(action, [arg_string]) of a flag: a "--" is removed from
\* the argument strings, and no string left gives the empty list
get_values(arg_string) ==
    IF arg_string = Chars("--") THEN EmptyList ELSE arg_string

\* "-h" with an explicit argument, as in "-hh": the argument is taken for
\* more options of one letter, and is accepted when each of them is "h"
more_help(t) ==
    /\ t.option_string = Chars("-h")
    /\ t.explicit_arg # <<>>
    /\ \A k \in 1..Len(t.explicit_arg) : t.explicit_arg[k] = "h"

\* The loop of parser._parse_known_args from start_index on, and what
\* parse_args does with the extras: an argument that is no option, and an
\* option the parser does not have, are extras; an option with "=" takes its
\* explicit argument; a flag without takes the next string, which has to be
\* an argument; the help action ends the process where it stands.
RECURSIVE consume(_, _, _, _)
consume(arg_strings, start_index, namespace, extras) ==
    IF start_index > Len(arg_strings)
    THEN IF extras THEN UsageError ELSE Parsed(namespace)
    ELSE LET t == option_tuple_at(arg_strings, start_index)
         IN  IF t.kind # "O" \/ t.dest = NoAction
             THEN consume(arg_strings, start_index + 1, namespace, TRUE)
             ELSE IF t.explicit_arg # None
             THEN IF t.dest = "help"
                  THEN IF more_help(t) THEN HelpExit ELSE UsageError
                  ELSE consume(arg_strings, start_index + 1,
                               [namespace EXCEPT ![t.dest] = get_values(t.explicit_arg)],
                               extras)
             ELSE IF t.dest = "help" THEN HelpExit
             ELSE IF /\ start_index < Len(arg_strings)
                     /\ option_tuple_at(arg_strings, start_index + 1).kind = "A"
             THEN consume(arg_strings, start_index + 2,
                          [namespace EXCEPT ![t.dest] =
                                         get_values(arg_strings[start_index + 1])],
                          extras)
             ELSE UsageError

\* parser.parse_args() on sys.argv[1:]: an ambiguous option is an error
\* before any option is dealt with
parse_args(arg_strings) ==
    IF \E i \in 1..Len(arg_strings) :
           option_tuple_at(arg_strings, i).kind = "ambiguous"
    THEN UsageError
    ELSE consume(arg_strings, 1, Defaults, FALSE)

\* The streams are sequences of the lines printed; their encoding is the
\* platform's, and is taken to accept every character.  The line of the
\* diagnostic starts with this text and goes on with the exception's message.
Diagnostic == "Error resolving musl runtime URL"

\* what parser.error writes: the usage, and a line with its message
Usage == "usage"

\* what the help action writes: the usage, the description and the options
Help == "help"

\* a slip: except BaseException, so that the not-found exit is reported too
finish_catch_all(r) ==
    IF r.kind = "return"
    THEN [stdout |-> <<r.value>>, stderr |-> <<>>, status |-> 0]
    ELSE [stdout |-> <<>>, stderr |-> <<Diagnostic>>, status |-> 1]

\* a slip: whatever the resolver ends with is printed and the exit status is 0
finish_print_all(r) ==
    [stdout |-> <<IF r.kind = "return" THEN r.value ELSE <<>> >>,
     stderr |-> <<>>, status |-> 0]

\* The try statement of main, given how resolve_musl_runtime_url ended:
\* print(url); sys.exit(0) / except SystemExit: raise / except Exception
finish(r) ==
    IF r.kind = "return"
    THEN [stdout |-> <<r.value>>, stderr |-> <<>>, status |-> 0]
    ELSE IF r.kind = "exit"
    THEN [stdout |-> <<>>, stderr |-> <<>>, status |-> r.code]
    ELSE [stdout |-> <<>>, stderr |-> <<Diagnostic>>, status |-> 1]

(***************************************************************************)
(* State                                                                   *)
(***************************************************************************)
VARIABLES
    text, once, twice, npc,      \* a text, normalize_text of it, and of that
    pieces, anchors, rpc,        \* the document's parts, re.findall's result
    argv, env, stdin,            \* sys.argv[1:], os.environ, sys.stdin
    args,                        \* the namespace of parse_args
    pc,                          \* where main is
    html, home_url, needle_arch, \* the three inputs
    result,                      \* how resolve_musl_runtime_url ended
    stdout, stderr, status,      \* what the process wrote, its exit status
    calls                        \* the calls of resolve_musl_runtime_url

vars == <<text, once, twice, npc, pieces, anchors, rpc, argv, env, stdin, args,
          pc, html, home_url, needle_arch, result, stdout, stderr, status,
          calls>>

normalizer_vars == <<text, once, twice, npc>>

resolver_vars == <<pieces, anchors, rpc>>

main_vars == <<argv, env, stdin, args, pc, stdout, stderr, status, calls>>

\* all the sequences of at most n elements of S
SeqsUpTo(S, n) == UNION {[1..k -> S] : k \in 0..n}

RECURSIVE Flatten(_)
Flatten(parts) == IF parts = <<>> THEN <<>> ELSE Head(parts) \o Flatten(Tail(parts))

NormalizerIdle ==
    /\ text = <<>> /\ once = None /\ twice = None /\ npc = "idle"

ResolverIdle ==
    /\ pieces = <<>> /\ anchors = <<>> /\ rpc = "idle"

\* status is -1 while the process runs
MainIdle ==
    /\ argv = <<>> /\ env = <<>> /\ stdin = <<>> /\ args = Defaults
    /\ pc = "idle"
    /\ stdout = <<>> /\ stderr = <<>> /\ status = -1 /\ calls = 0

(***************************************************************************)
(* normalize_text applied to a text, and to its own result                 *)
(***************************************************************************)
MaxFragments == 4

\* With the ASCII fragments, the em space U+2003 and the capital sigma U+03A3.
Fragments ==
    {<<"&">>, Chars("lt;"), Chars("&amp;"), Chars("&Amp;"), <<"<">>, <<">">>,
     <<" ">>, <<"\n">>, <<"T">>, Chars("<t>"), <<"U+2003">>, <<"U+03A3">>}

\* the decimal character reference of n digits, all of them 1
DecimalReference(n) == <<"&", "#">> \o [k \in 1..n |-> "1"] \o <<";">>

\* a decimal character reference of one digit more than int() converts
Oversized == DecimalReference(max_str_digits + 1)

\* Texts with the longest decimal reference int() converts, with one of a
\* digit more, and with one of a digit more whose "&" is written "&amp;".
LongTexts ==
    {Chars("T ") \o DecimalReference(max_str_digits),
     Chars("T ") \o Oversized,
     Chars("&amp;") \o Tail(Oversized)}

InitNormalize ==
    /\ \/ \E parts \in SeqsUpTo(Fragments, MaxFragments) : text = Flatten(parts)
       \/ text \in LongTexts
    /\ once = None /\ twice = None /\ npc = "start"
    /\ ResolverIdle /\ MainIdle
    /\ html = None /\ home_url = None /\ needle_arch = None /\ result = NotCalled

\* once = normalize_text(text), unless the call raises
NormalizeOnce ==
    /\ npc = "start"
    /\ IF normalize_text(text) = Raised
       THEN npc' = "raised" /\ UNCHANGED once
       ELSE once' = normalize_text(text) /\ npc' = "once"
    /\ UNCHANGED <<text, twice, resolver_vars, main_vars, html, home_url,
                   needle_arch, result>>

\* twice = normalize_text(once), unless the call raises
NormalizeTwice ==
    /\ npc = "once"
    /\ IF normalize_text(once) = Raised
       THEN npc' = "raised" /\ UNCHANGED twice
       ELSE twice' = normalize_text(once) /\ npc' = "twice"
    /\ UNCHANGED <<text, once, resolver_vars, main_vars, html, home_url,
                   needle_arch, result>>

NextNormalize == NormalizeOnce \/ NormalizeTwice

SpecNormalize == InitNormalize /\ [][NextNormalize]_vars

(***************************************************************************)
(* resolve_musl_runtime_url applied to a document, a base URL and a needle *)
(***************************************************************************)
MaxPieces == 2

\* A part of a document: an opening anchor tag with its href, the content,
\* and the closing tag (empty when the anchor is left unclosed).
Anchor(open, href, rest, inner, close) ==
    [opens |-> TRUE, href |-> Chars(href),
     head |-> Chars(open) \o Chars(href) \o Chars(rest),
     inner |-> Chars(inner), close |-> Chars(close)]

\* A part that opens no anchor the pattern accepts: text, other markup.
Other(body, close) ==
    [opens |-> FALSE, href |-> <<>>, head |-> <<>>,
     inner |-> Chars(body), close |-> Chars(close)]

PieceText(p) == p.head \o p.inner \o p.close

Plain ==
    Anchor("<a href=\"", "/dl/runtime-x86_64.tgz", "\">", "X86_64", "</a>")

Styled ==
    Anchor("<A class=\"k\" HREF=\"", "musl/x86_64.tar.gz", "\" id=\"i\">",
           "<b>Runtime</b>\nmusl", "</A>")

Cdn ==
    Anchor("<a href=\"", "https://c.org/runtime&amp;x86_64", "\">", "cdn", "</a>")

Shouting ==
    Anchor("<a href=\"", "HTTPS://c.org/RUNTIME-x86_64", "\">", "up", "</a>")

Split ==
    Anchor("<a href=\"", "/o/other.tgz", "\">", "run<i>time</i> x86_64", "</a>")

Escaped ==
    Anchor("<a href=\"", "rt.tar.gz", "\">", "musl &amp; runtime (x86_64)", "</a>")

\* the href spells "runtime-" with a hexadecimal and a decimal reference
Hex ==
    Anchor("<a href=\"", "/h/r&#x75;ntime&#45;x86_64", "\">", "hex &copy;", "</a>")

\* the em space U+2003 after "<a"; the content is "Runtime", a no-break space
\* and the Greek capitals alpha and sigma
Wide ==
    [opens |-> TRUE, href |-> Chars("/w/musl.tgz"),
     head |-> Chars("<a") \o <<"U+2003">> \o Chars("href=\"/w/musl.tgz\">"),
     inner |-> Chars("Runtime") \o <<"U+00A0", "U+0391", "U+03A3">>,
     close |-> Chars("</a>")]

Unclosed ==
    Anchor("<a href=\"", "/u/runtime-x86_64", "\">", "unclosed ", "")

SingleQuoted == Other("<a href='/q/runtime-x86_64'>single", "</a>")

Words == Other(" runtime x86_64 ", "")

Pieces ==
    {Plain, Styled, Cdn, Shouting, Split, Escaped, Hex, Wide, Unclosed,
     SingleQuoted, Words}

\* the content is a decimal reference of one digit more than int() converts
LongContent ==
    [Anchor("<a href=\"", "/a", "\">", "", "</a>") EXCEPT !.inner = Oversized]

\* the href ends with such a reference, the content holds the keywords
LongHref ==
    [opens |-> TRUE, href |-> Chars("/l/") \o Oversized,
     head |-> Chars("<a href=\"/l/") \o Oversized \o Chars("\">"),
     inner |-> Chars("runtime x86_64"), close |-> Chars("</a>")]

\* the documents with such an anchor: alone, before and after another one
LongDocuments ==
    {<<LongContent>>, <<LongContent, Plain>>, <<Plain, LongContent>>,
     <<Split, LongContent>>, <<LongHref>>, <<LongHref, Plain>>}

RECURSIVE Render(_)
Render(ps) == IF ps = <<>> THEN <<>> ELSE PieceText(Head(ps)) \o Render(Tail(ps))

DirectoryBase == Chars("https://example.org/downloads/")

FileBase == Chars("http://e.org/p")

MalformedBase == Chars("http://[")

\* the account-of sign U+2100 in the host, which NFKC turns into "a/c"
UnsafeBase == Chars("http://e") \o <<"U+2100">> \o Chars(".org/")

Bases == {DirectoryBase, FileBase, MalformedBase, UnsafeBase}

Needles ==
    {Chars("x86_64"), Chars("X86_64"), Chars("&x86_64"), <<"U+0391", "U+03A3">>}

InitResolve ==
    /\ pieces \in SeqsUpTo(Pieces, MaxPieces) \cup LongDocuments
    /\ html = Render(pieces)
    /\ home_url \in Bases
    /\ needle_arch \in Needles
    /\ anchors = <<>> /\ result = NotCalled /\ rpc = "start"
    /\ NormalizerIdle /\ MainIdle

\* anchors = re.findall(...)
Extract ==
    /\ rpc = "start"
    /\ anchors' = findall(html)
    /\ rpc' = "extracted"
    /\ UNCHANGED <<normalizer_vars, main_vars, pieces, html, home_url,
                   needle_arch, result>>

\* needle = needle_arch.lower(), and the loop over the anchors
Resolve ==
    /\ rpc = "extracted"
    /\ result' = scan_anchors(anchors, 1, home_url, lower(needle_arch))
    /\ rpc' = "done"
    /\ UNCHANGED <<normalizer_vars, main_vars, pieces, anchors, html, home_url,
                   needle_arch>>

NextResolve == Extract \/ Resolve

SpecResolve == InitResolve /\ [][NextResolve]_vars

(***************************************************************************)
(* main                                                                    *)
(***************************************************************************)
HtmlFlag == Chars("<a href=\"/dl/runtime-aarch64.tar.gz\">ARM64 Runtime</a>")

HtmlVariable == Chars("<a href=\"rt.tgz\">Runtime for RISCV64</a>")

HtmlStdin == Chars("<p>no runtime for aarch64 here</p>")

\* an anchor whose content is a decimal reference of one digit more than
\* int() converts, before the anchor of HtmlFlag
HtmlLong == Chars("<a href=\"/a\">") \o Oversized \o Chars("</a>") \o HtmlFlag

Optional(S) == {None, <<>>} \cup S

\* the arguments that give a flag the value v, none for None
FlagArgs(option_string, v) ==
    IF v = None THEN <<>> ELSE <<Chars(option_string), v>>

CommandLine(h, u, n) ==
    FlagArgs("--html", h) \o FlagArgs("--home-url", u)
    \o FlagArgs("--needle-arch", n)

\* the command lines of flags, each absent or with a value, the empty one too
FlagLines ==
    {CommandLine(h, u, n) :
        h \in Optional({HtmlFlag}),
        u \in Optional({Chars("https://example.org/"), MalformedBase}),
        n \in Optional({Chars("aarch64")})}

AllFlags == CommandLine(HtmlFlag, Chars("https://example.org/"), Chars("aarch64"))

\* Command lines with a request for help, alone, after, before and run into
\* the flags; with an option the parser does not have, a flag without its
\* value, an ambiguous abbreviation, an argument that is no option; with
\* flags abbreviated and written with "="; with a flag given twice, the
\* second time with a negative number; with "--" for the explicit argument
\* of a flag; with the flags after "--"; with the long HTML, alone and with
\* the other flags.
OtherLines ==
    {<<Chars("-h")>>,
     <<Chars("--help")>>,
     <<Chars("-hh")>>,
     <<Chars("-hx")>>,
     AllFlags \o <<Chars("-h")>>,
     <<Chars("--help")>> \o AllFlags,
     <<Chars("--html"), Chars("-h")>>,
     <<Chars("--bogus")>> \o AllFlags,
     AllFlags \o <<Chars("--bogus"), Chars("--help")>>,
     AllFlags \o <<Chars("--html")>>,
     <<Chars("--h"), HtmlFlag>>,
     AllFlags \o <<Chars("x")>>,
     <<Chars("--html=") \o HtmlFlag, Chars("--ho"),
       Chars("https://example.org/"), Chars("--n=aarch64")>>,
     AllFlags \o <<Chars("--needle-arch"), Chars("-1")>>,
     <<Chars("--html=--"), Chars("--home-url"), Chars("https://example.org/"),
       Chars("--needle-arch"), Chars("aarch64")>>,
     <<Chars("--")>> \o AllFlags,
     CommandLine(HtmlLong, None, None),
     CommandLine(HtmlLong, Chars("https://example.org/"), Chars("aarch64"))}

Init ==
    /\ argv \in FlagLines \cup OtherLines
    /\ args = Defaults
    /\ env \in [HTML : Optional({HtmlVariable}),
                HOME_URL : Optional({FileBase}),
                NEEDLE_ARCH : Optional({Chars("RISCV64")})]
    /\ stdin \in {[isatty |-> TRUE, data |-> <<>>],
                  [isatty |-> FALSE, data |-> HtmlStdin]}
    /\ pc = "parse_args"
    /\ html = None /\ home_url = None /\ needle_arch = None /\ result = NotCalled
    /\ stdout = <<>> /\ stderr = <<>> /\ status = -1 /\ calls = 0
    /\ NormalizerIdle /\ ResolverIdle

\* parser.error(message): the usage and the message on stderr, exit status 2
ParserError ==
    /\ stderr' = Append(stderr, Usage)
    /\ status' = 2
    /\ pc' = "exited"

\* parser.print_help(); parser.exit(): the help on stdout, exit status 0
HelpAction ==
    /\ stdout' = Append(stdout, Help)
    /\ status' = 0
    /\ pc' = "exited"

\* args = parser.parse_args()
ParseArgs ==
    /\ pc = "parse_args"
    /\ LET r == parse_args(argv)
       IN  IF r.kind = "ok"
           THEN args' = r.namespace /\ pc' = "html"
                /\ UNCHANGED <<stdout, stderr, status>>
           ELSE IF r.kind = "help"
           THEN HelpAction /\ UNCHANGED <<args, stderr>>
           ELSE ParserError /\ UNCHANGED <<args, stdout>>
    /\ UNCHANGED <<normalizer_vars, resolver_vars, argv, env, stdin, html,
                   home_url, needle_arch, result, calls>>

GetHtml ==
    /\ pc = "html"
    /\ LET r == select_html(args, env, stdin)
       IN  IF r.kind = "ok"
           THEN html' = r.value /\ pc' = "home_url" /\ UNCHANGED <<stderr, status>>
           ELSE ParserError /\ UNCHANGED html
    /\ UNCHANGED <<normalizer_vars, resolver_vars, argv, env, stdin, args,
                   home_url, needle_arch, result, stdout, calls>>

GetHomeUrl ==
    /\ pc = "home_url"
    /\ LET r == select_value(args.home_url, env.HOME_URL)
       IN  IF r.kind = "ok"
           THEN home_url' = r.value /\ pc' = "needle_arch"
                /\ UNCHANGED <<stderr, status>>
           ELSE ParserError /\ UNCHANGED home_url
    /\ UNCHANGED <<normalizer_vars, resolver_vars, argv, env, stdin, args,
                   html, needle_arch, result, stdout, calls>>

GetNeedleArch ==
    /\ pc = "needle_arch"
    /\ LET r == select_value(args.needle_arch, env.NEEDLE_ARCH)
       IN  IF r.kind = "ok"
           THEN needle_arch' = r.value /\ pc' = "try"
                /\ UNCHANGED <<stderr, status>>
           ELSE ParserError /\ UNCHANGED needle_arch
    /\ UNCHANGED <<normalizer_vars, resolver_vars, argv, env, stdin, args,
                   html, home_url, result, stdout, calls>>

\* the streams and the exit status once the resolver has ended as r
Outcome(r, f) ==
    /\ result' = r
    /\ stdout' = stdout \o f.stdout
    /\ stderr' = stderr \o f.stderr
    /\ status' = f.status

Finish(r) == Outcome(r, finish(r))

\* try: url = resolve_musl_runtime_url(...); print(url); sys.exit(0) except ...
Try ==
    /\ pc = "try"
    /\ Finish(resolve_musl_runtime_url(html, home_url, needle_arch))
    /\ calls' = calls + 1
    /\ pc' = "exited"
    /\ UNCHANGED <<normalizer_vars, resolver_vars, argv, env, stdin, args,
                   html, home_url, needle_arch>>

Next == ParseArgs \/ GetHtml \/ GetHomeUrl \/ GetNeedleArch \/ Try

Spec == Init /\ [][Next]_vars

(***************************************************************************)
(* What the properties speak of                                            *)
(***************************************************************************)
\* Decoding an anchor record raises ValueError: its href, or its content
\* with the tags taken out, holds a decimal character reference of more than
\* max_str_digits digits.
Faulty(a) == unescape(a[1]) = Raised \/ normalize_text(a[2]) = Raised

\* An anchor record qualifies: the lower-cased entity-decoded href, a space
\* and the normalized content hold both "runtime" and the lower-cased needle.
Qualifies(a, arch) ==
    LET decoded == concat(unescape(a[1]), concat(<<" ">>, normalize_text(a[2])))
        hay == lower(decoded)
    IN  /\ decoded # Raised
        /\ Contains(hay, Chars("runtime")) /\ Contains(hay, lower(arch))

QualifyingIn(as, arch) == {k \in 1..Len(as) : Qualifies(as[k], arch)}

FaultyIn(as) == {k \in 1..Len(as) : Faulty(as[k])}

\* of the records F that raise and the records Q that qualify, one that
\* raises comes first: the loop ends there
FaultFirst(F, Q) == F # {} /\ (Q = {} \/ Least(F) < Least(Q))

\* the join of the base URL with the decoded href of record k
JoinedHref(as, k, base) == urljoin(base, unescape(as[k][1]))

Qualifying == QualifyingIn(anchors, needle_arch)

Faults == FaultyIn(anchors)

Extracted == rpc \in {"extracted", "done"}

Resolved == rpc = "done"

(***************************************************************************)
(* C1: when an extracted anchor qualifies, the resolver returns the href   *)
(* of the first qualifying anchor in document order joined against the     *)
(* base URL, never that of a later qualifying anchor.  As stated, for      *)
(* every base URL: refuted (a base URL the URL parser rejects: the join    *)
(* raises and nothing is returned).  Amended: when decoding no anchor      *)
(* before the first qualifying one raises, the resolver returns that URL   *)
(* when the join of the first qualifying anchor's href raises no fault,    *)
(* and ends with the join's ValueError when it does; when decoding an      *)
(* anchor before it raises, the resolver ends with that ValueError.        *)
(***************************************************************************)
\* the URL of the first anchor of Q is returned
FirstReturned(Q) ==
    Q # {} =>
        /\ result.kind = "return"
        /\ result = JoinedHref(anchors, Least(Q), home_url)

\* C1 as stated: once resolved with an anchor qualifying, the resolver has
\* returned the join of the base URL with the first qualifying anchor's href
FirstQualifyingAnchorWins == Resolved => FirstReturned(Qualifying)

\* The join for the first anchor of Q, and how the resolver ends with it:
\* with its URL returned, or with its ValueError raised; a URL returned is
\* never the different URL of a later anchor of Q.
FirstJoined(Q) ==
    LET first == JoinedHref(anchors, Least(Q), home_url)
    IN  /\ first.kind \in {"return", "raise"}
        /\ first.kind = "return" => result = Returned(first.value)
        /\ first.kind = "raise" => result = ValueError
        /\ \A k \in Q :
               JoinedHref(anchors, k, home_url) # first
               => result # JoinedHref(anchors, k, home_url)

\* With an anchor in Q, the resolver ends as the join for the first anchor
\* of Q does, unless an anchor of F comes before it: then with ValueError.
FirstOf(Q, F) ==
    Q # {} => IF FaultFirst(F, Q) THEN result = ValueError ELSE FirstJoined(Q)

\* C1, amended: once resolved with an anchor qualifying, the resolver has
\* raised ValueError when decoding an anchor before the first qualifying one
\* raises; otherwise it has returned the join of the base URL with the first
\* qualifying anchor's href when that join raises no fault, and has raised
\* the join's ValueError when it does, whatever anchors qualify after it
FirstQualifyingAnchorJoined == Resolved => FirstOf(Qualifying, Faults)

\* two anchors qualify, their URLs differ, and the first one's is returned
FirstOfTwo(Q) ==
    /\ Cardinality(Q) = 2
    /\ result.kind = "return"
    /\ \E k \in Q : JoinedHref(anchors, k, home_url) # result
    /\ result = JoinedHref(anchors, Least(Q), home_url)

FirstOfTwoReturned ==
    Resolved /\ FirstOf(Qualifying, Faults) /\ FirstOfTwo(Qualifying)

(***************************************************************************)
(* C2: when no extracted anchor holds both "runtime" and the needle, the   *)
(* resolver produces no URL and signals not-found (exit 1); a URL it       *)
(* returns is always that of a qualifying anchor.  As stated, for every    *)
(* HTML input: refuted (an anchor with a decimal character reference of    *)
(* more than max_str_digits digits: decoding it raises ValueError).        *)
(* Amended: not-found when decoding no anchor raises, ValueError when      *)
(* decoding one does; no URL in either case.                               *)
(***************************************************************************)
NotFoundWithout(Q) ==
    /\ Q = {} => result = SystemExit(1)
    /\ result.kind = "return" =>
           \E k \in Q : result = JoinedHref(anchors, k, home_url)

\* C2 as stated: once resolved, no qualifying anchor means not-found, and a
\* URL returned is that of a qualifying anchor
NotFoundWhenNoneQualifies == Resolved => NotFoundWithout(Qualifying)

NotFoundOrFault(Q, F) ==
    /\ (Q = {} /\ F = {}) => result = SystemExit(1)
    /\ (Q = {} /\ F # {}) => result = ValueError
    /\ result = SystemExit(1) => (Q = {} /\ F = {})
    /\ result.kind = "return" =>
           \E k \in Q : result = JoinedHref(anchors, k, home_url)

\* C2, amended: once resolved, no qualifying anchor means not-found when
\* decoding no anchor raises and ValueError when decoding one does, and a URL
\* returned is that of a qualifying anchor
NotFoundUnlessDecodingRaises == Resolved => NotFoundOrFault(Qualifying, Faults)

\* anchors were extracted, one of them holds the needle, none qualifies
NoneOfSomeQualifies ==
    /\ Resolved
    /\ Len(anchors) = 2
    /\ Qualifying = {} /\ Faults = {}
    /\ \E k \in 1..2 : Contains(lower(anchors[k][2]), lower(needle_arch))
    /\ result = SystemExit(1)

(***************************************************************************)
(* C3: normalize_text is idempotent.  As stated, for every text: refuted.  *)
(* Amended: for every text that holds no "&".                              *)
(***************************************************************************)
\* C3 as stated: normalize_text(normalize_text(s)) = normalize_text(s), for
\* every text s
NormalizeIdempotent == npc = "twice" => twice = once

\* C3, amended: normalize_text(normalize_text(s)) = normalize_text(s) for every
\* text s without "&"
NormalizeIdempotentWithoutAmpersand ==
    (npc = "twice" /\ ~Has(text, "&")) => twice = once

\* a text with a tag, a line break and a capital, normalized twice
TaggedTextNormalizedTwice ==
    /\ npc = "twice"
    /\ ~Has(text, "&")
    /\ Contains(text, Chars("<t>")) /\ Has(text, "\n") /\ Has(text, "T")
    /\ once # text
    /\ twice = once

(***************************************************************************)
(* Anchor records as the document's parts give them                        *)
(***************************************************************************)
\* the first part from k on that holds a closing anchor tag, 0 when none does
RECURSIVE NextClosing(_, _)
NextClosing(ps, k) ==
    IF k > Len(ps) THEN 0
    ELSE IF ps[k].close # <<>> THEN k
    ELSE NextClosing(ps, k + 1)

\* the text of the parts k..j, the closing tag of part j left out
RECURSIVE TextUpToClose(_, _, _)
TextUpToClose(ps, k, j) ==
    IF k > j THEN <<>>
    ELSE IF k = j THEN ps[k].head \o ps[k].inner
    ELSE PieceText(ps[k]) \o TextUpToClose(ps, k + 1, j)

\* One record per well-formed anchor, an unclosed one contributing nothing.
RECURSIVE WellFormedRecords(_, _)
WellFormedRecords(ps, k) ==
    IF k > Len(ps) THEN <<>>
    ELSE IF ps[k].opens /\ ps[k].close # <<>>
    THEN << <<ps[k].href, ps[k].inner>> >> \o WellFormedRecords(ps, k + 1)
    ELSE WellFormedRecords(ps, k + 1)

\* One record per opening tag that a closing tag follows somewhere: it runs
\* to the first closing tag, whatever lies between being its content.
RECURSIVE RecordsToFirstClose(_, _)
RecordsToFirstClose(ps, k) ==
    IF k > Len(ps) \/ NextClosing(ps, k) = 0 THEN <<>>
    ELSE IF ~ps[k].opens THEN RecordsToFirstClose(ps, k + 1)
    ELSE << <<ps[k].href,
              ps[k].inner
              \o (IF NextClosing(ps, k) = k THEN <<>>
                  ELSE ps[k].close
                       \o TextUpToClose(ps, k + 1, NextClosing(ps, k)))>> >>
         \o RecordsToFirstClose(ps, NextClosing(ps, k) + 1)

(***************************************************************************)
(* C9: the extractor yields the records in document order, each ending at  *)
(* the first closing anchor tag after its opening tag.  As stated, an      *)
(* opening tag with no closing tag of its own contributes no record and    *)
(* does not keep a following anchor from being extracted: refuted.         *)
(* Amended: a record begins at an opening tag the pattern accepts that     *)
(* lies outside every earlier record, and ends at the first closing anchor *)
(* tag after it; an opening tag that no closing anchor tag follows         *)
(* contributes no record; left unclosed before a later anchor, it is       *)
(* matched up to that anchor's closing tag, its href is a candidate and    *)
(* the later anchor is part of its content.                                *)
(***************************************************************************)
\* the last part that holds a closing anchor tag, 0 when none does
LastClosing(ps) == Greatest({k \in 1..Len(ps) : ps[k].close # <<>>})

\* an opening tag that no closing anchor tag follows is there
OpensUnclosed(ps) ==
    \E k \in 1..Len(ps) : ps[k].opens /\ NextClosing(ps, k) = 0

\* C9 as stated: the records are those of the well-formed anchors, in document
\* order, an unclosed opening tag contributing none
UnclosedAnchorsSkipped == Extracted => anchors = WellFormedRecords(pieces, 1)

\* C9, amended: the records are, in document order, those that begin at an
\* opening tag outside every earlier record and run to the first closing
\* anchor tag after it; no record's content holds a closing anchor tag; the
\* opening tags that no closing anchor tag follows contribute no record: the
\* records are those of the input up to its last closing tag, and none
\* without a closing tag
AnchorsRunToFirstClosingTag ==
    Extracted =>
        /\ anchors = RecordsToFirstClose(pieces, 1)
        /\ \A k \in 1..Len(anchors) :
               ~\E i \in 1..Len(anchors[k][2]) :
                     MatchAtIgnoreCase(anchors[k][2], Chars("</a>"), i)
        /\ OpensUnclosed(pieces)
           => anchors = findall(Render(SubSeq(pieces, 1, LastClosing(pieces))))
        /\ NextClosing(pieces, 1) = 0 => anchors = <<>>

\* an unclosed anchor before a well-formed one: one record, with the href of
\* the unclosed anchor
UnclosedAnchorSwallowsNext ==
    /\ Extracted
    /\ Len(pieces) = 2
    /\ pieces[1] = Unclosed
    /\ pieces[2] = Plain
    /\ Len(anchors) = 1
    /\ anchors[1][1] = Unclosed.href
    /\ Contains(anchors[1][2], Plain.href)

(***************************************************************************)
(* C10: the href is entity-decoded and not tag-stripped, the keyword tests *)
(* run on the decoded href and the normalized content, and the URL         *)
(* returned is the join of the base URL with the decoded href, its letter  *)
(* case kept: not with the href as written, nor with the lower-cased one.  *)
(***************************************************************************)
\* the href of a part with its character references decoded, written out
DecodedHref(href) ==
    IF href = Cdn.href THEN Chars("https://c.org/runtime&x86_64")
    ELSE IF href = Hex.href THEN Chars("/h/runtime-x86_64")
    ELSE href

\* the href or the content holds, as written, the reference that decoding
\* raises on
NotDecodable(a) == Contains(a[1], Oversized) \/ Contains(a[2], Oversized)

\* the keyword tests on the written-out decoded href
QualifiesDecoded(a, arch) ==
    /\ ~NotDecodable(a)
    /\ LET hay == lower(DecodedHref(a[1]) \o <<" ">> \o normalize_text(a[2]))
       IN  Contains(hay, Chars("runtime")) /\ Contains(hay, lower(arch))

QualifyingDecoded == {k \in 1..Len(anchors) : QualifiesDecoded(anchors[k], needle_arch)}

FaultsDecoded == {k \in 1..Len(anchors) : NotDecodable(anchors[k])}

DecodedJoined(href) ==
    /\ result = urljoin(home_url, DecodedHref(href))
    /\ DecodedHref(href) # href => result # urljoin(home_url, href)
    /\ lower(href) # href => result # urljoin(home_url, lower(DecodedHref(href)))

\* with the records Q that pass the tests on the decoded href, and the
\* records F whose decoding raises
DecodedOf(Q, F) ==
    /\ ~FaultFirst(F, Q) => (Q = {} <=> result.kind = "exit")
    /\ FaultFirst(F, Q) => result = ValueError
    /\ result.kind = "return" => DecodedJoined(anchors[Least(Q)][1])

\* C10: once resolved, the href has been decoded (a reference in it that
\* cannot be decoded has raised), the keyword tests have run on the decoded
\* href, and the URL returned is the join of the base URL with the decoded
\* href
DecodedHrefJoined == Resolved => DecodedOf(QualifyingDecoded, FaultsDecoded)

\* the needle is found only in the decoded href, and the decoded href is joined
EntityInHrefDecoded ==
    /\ Resolved
    /\ needle_arch = Chars("&x86_64")
    /\ pieces = <<Cdn>>
    /\ home_url = FileBase
    /\ result = Returned(Chars("https://c.org/runtime&x86_64"))

(***************************************************************************)
(* C8: an absolute href is returned unchanged, a relative one joined       *)
(* against the base URL.  As stated, for every base URL: refuted (a base   *)
(* URL the parser rejects, a scheme written in capitals).  Amended:        *)
(* whenever the resolver returns a URL, that is, neither decoding an       *)
(* anchor nor the join raises, an absolute href scheme://authority…       *)
(* with a lower-case scheme and no "?", "#", ";" or white space is         *)
(* returned unchanged, and a relative href is resolved against the base    *)
(* URL by the standard rules.                                              *)
(***************************************************************************)
\* scheme://…: a scheme, then "//"
IsAbsolute(h) ==
    LET i == find(h, ":", 1)
    IN  /\ i > 1 /\ IsAlpha(h[1])
        /\ \A k \in 1..(i - 1) : IsSchemeChar(h[k])
        /\ MatchAt(h, Chars("//"), i + 1)

\* nothing in it that the parser drops, moves or rewrites
IsPlain(h) ==
    /\ \A k \in 1..Len(h) : ~IsUpper(h[k]) \/ k > find(h, ":", 1)
    /\ \A k \in 1..Len(h) : h[k] \notin {"?", "#", ";", "[", "]"} /\ ~IsSpace(h[k])

\* scheme://authority with a lower-case scheme and a non-empty authority
IsPlainAbsolute(h) ==
    /\ IsAbsolute(h) /\ IsPlain(h)
    /\ find(h, ":", 1) + 3 <= Len(h)
    /\ h[find(h, ":", 1) + 3] # "/"

\* a path, no scheme, no "." or ".." or empty segment
IsPlainRelative(h) ==
    /\ Len(h) > 0 /\ ~Has(h, ":") /\ IsPlain(h)
    /\ ~Contains(h, Chars("//")) /\ ~Contains(h, Chars("/."))
    /\ h[1] # "."

\* scheme://authority of a plain absolute URL
Origin(base) ==
    LET slash == find(base, "/", find(base, ":", 1) + 3)
    IN  IF slash = 0 THEN base ELSE SubSeq(base, 1, slash - 1)

\* the base URL up to and with the last "/" of its path
Directory(base) ==
    LET slashes == {k \in (Len(Origin(base)) + 1)..Len(base) : base[k] = "/"}
    IN  IF slashes = {} THEN Origin(base) \o <<"/">>
        ELSE SubSeq(base, 1, CHOOSE k \in slashes : \A o \in slashes : k >= o)

\* standard resolution of a plain relative href against a plain base URL
Resolution(base, h) ==
    IF h[1] = "/" THEN Origin(base) \o h ELSE Directory(base) \o h

\* the decoded href of the first qualifying anchor, None when none qualifies
FirstHrefOf(Q) == IF Q = {} THEN None ELSE unescape(anchors[Least(Q)][1])

FirstHref == FirstHrefOf(Qualifying)

Unchanged(href) == (href # None /\ IsAbsolute(href)) => result = Returned(href)

\* C8 as stated: an absolute href is returned unchanged, whatever the base URL
AbsoluteHrefUnchanged == Resolved => Unchanged(FirstHref)

ResolvedAgainstBase(href) ==
    (href # None /\ result.kind = "return") =>
        /\ IsPlainAbsolute(href) => result.value = href
        /\ (IsPlainRelative(href) /\ IsPlainAbsolute(home_url)
            /\ ~Contains(Directory(home_url), Chars("/.")))
           => result.value = Resolution(home_url, href)
        /\ (home_url = Chars("https://example.org/downloads/")
            /\ href = Chars("musl/x86_64.tar.gz"))
           => result.value
                  = Chars("https://example.org/downloads/musl/x86_64.tar.gz")

\* C8, amended: when the resolver returns a URL (neither decoding nor the
\* join raises), a plain absolute href is returned unchanged and a plain
\* relative one resolved against the base URL
HrefResolvedAgainstBase == Resolved => ResolvedAgainstBase(FirstHref)

\* an absolute href returned as it is, under a base URL it has nothing of
ReturnedAsWritten(href) ==
    /\ href # None
    /\ IsPlainAbsolute(href)
    /\ result = Returned(href)
    /\ ~Contains(result.value, Chars("example.org"))

AbsoluteHrefReturned ==
    Resolved /\ home_url = DirectoryBase /\ ReturnedAsWritten(FirstHref)

(***************************************************************************)
(* main: what the properties speak of                                      *)
(***************************************************************************)
Exited == pc = "exited"

\* the resolver was called, and main has dealt with how it ended
Tried == pc = "exited" /\ calls = 1

\* the flag of dest is on the command line: an argument is its option
OnCommandLine(dest) ==
    \E i \in 1..Len(argv) :
        option_tuple_at(argv, i).kind = "O" /\ option_tuple_at(argv, i).dest = dest

\* The command line gives the input dest: the value parse_args returns for
\* it is not empty; when parse_args ends the process, its flag is there.
Given(dest) ==
    IF parse_args(argv).kind = "ok" THEN Truthy(parse_args(argv).namespace[dest])
    ELSE OnCommandLine(dest)

\* parse_args prints the help and ends the process
HelpRequested == parse_args(argv).kind = "help"

\* no HTML text, no base URL or no needle from any of its sources
MissingHtml == ~Given("html") /\ env.HTML = None /\ stdin.isatty

MissingHomeUrl == ~Given("home_url") /\ ~Truthy(env.HOME_URL)

MissingNeedleArch == ~Given("needle_arch") /\ ~Truthy(env.NEEDLE_ARCH)

MissingInput == MissingHtml \/ MissingHomeUrl \/ MissingNeedleArch

\* the anchors of the HTML input that qualify for the needle
QualifyingOfInput == QualifyingIn(findall(html), needle_arch)

\* the join of the base URL with the href of the first qualifying anchor
JoinOfInput == JoinedHref(findall(html), Least(QualifyingOfInput), home_url)

\* decoding an anchor of the HTML input raises before any anchor qualifies
FaultOfInput == FaultFirst(FaultyIn(findall(html)), QualifyingOfInput)

(***************************************************************************)
(* C4: when the HTML text, the base URL or the needle is missing, the      *)
(* process ends with a usage error on stderr and a non-zero exit status,   *)
(* prints nothing on stdout and never calls the resolver.  As stated, for  *)
(* every run: refuted (a command line that asks for help).  Amended: for   *)
(* every run the resolver is never called, and unless the command line     *)
(* asks for help the rest holds; with -h or --help the help is printed on  *)
(* stdout and the exit status is 0.                                        *)
(***************************************************************************)
\* C4 as stated: with an input missing the resolver is never called, stdout
\* stays empty, and the process ends with the usage error and a non-zero
\* exit status
MissingInputIsUsageError ==
    MissingInput =>
        /\ calls = 0 /\ result = NotCalled /\ pc # "try"
        /\ stdout = <<>>
        /\ Exited => (status > 0 /\ stderr = <<Usage>>)

\* C4, amended: with an input missing the resolver is never called; the
\* process ends with the usage error on stderr, exit status 2 and an empty
\* stdout, unless the command line asks for help, and then with the help on
\* stdout, exit status 0 and an empty stderr
MissingInputIsUsageErrorOrHelp ==
    MissingInput =>
        /\ calls = 0 /\ result = NotCalled /\ pc # "try"
        /\ ~HelpRequested =>
               /\ stdout = <<>>
               /\ Exited => (status = 2 /\ stderr = <<Usage>>)
        /\ HelpRequested =>
               /\ stderr = <<>>
               /\ Exited => (status = 0 /\ stdout = <<Help>>)

\* the HTML text is there, the base URL is not: usage error, exit status 2
MissingBaseUrlRejected ==
    /\ Exited
    /\ html = HtmlFlag
    /\ MissingHomeUrl /\ ~MissingNeedleArch
    /\ stderr = <<Usage>> /\ status = 2
    /\ calls = 0

(***************************************************************************)
(* C5: with all three inputs given, a qualifying anchor means the URL (and *)
(* nothing else) on stdout and exit status 0, no qualifying anchor means   *)
(* nothing on stdout and exit status 1; exit status 0 goes with a printed  *)
(* URL and only with it.  As stated, for every input: refuted (a base URL  *)
(* the URL parser rejects).  Amended: a qualifying anchor means the URL    *)
(* and exit status 0 when neither decoding an anchor before it nor joining *)
(* its href raises a fault, and the diagnostic on stderr, nothing on       *)
(* stdout and exit status 1 when one does; no qualifying anchor means      *)
(* nothing on stdout and exit status 1, with the diagnostic on stderr when *)
(* decoding an anchor raises.                                              *)
(***************************************************************************)
\* C5 as stated: a qualifying anchor means the URL on stdout and exit status 0
QualifyingAnchorMeansSuccess ==
    Tried =>
        /\ QualifyingOfInput # {} => (Len(stdout) = 1 /\ status = 0)
        /\ QualifyingOfInput = {} => (stdout = <<>> /\ status = 1)
        /\ status = 0 <=> Len(stdout) = 1

\* C5, amended: a qualifying anchor whose href the join accepts, with no
\* anchor before it whose decoding raises, means the URL on stdout and exit
\* status 0; one whose join raises, or with such an anchor before it, means
\* the diagnostic on stderr, an empty stdout and exit status 1; none means
\* exit status 1 and an empty stdout, and the diagnostic on stderr when
\* decoding an anchor raises; exit status 0 goes with a printed URL and only
\* with it
QualifyingAnchorJoinedMeansSuccess ==
    Tried =>
        /\ (QualifyingOfInput # {} /\ ~FaultOfInput /\ JoinOfInput.kind = "return")
           => (stdout = <<JoinOfInput.value>> /\ stderr = <<>> /\ status = 0)
        /\ (QualifyingOfInput # {} /\ ~FaultOfInput /\ JoinOfInput.kind = "raise")
           => (stdout = <<>> /\ stderr = <<Diagnostic>> /\ status = 1)
        /\ QualifyingOfInput # {} => JoinOfInput.kind \in {"return", "raise"}
        /\ FaultOfInput
           => (stdout = <<>> /\ stderr = <<Diagnostic>> /\ status = 1)
        /\ (QualifyingOfInput = {} /\ ~FaultOfInput)
           => (stdout = <<>> /\ stderr = <<>> /\ status = 1)
        /\ status = 0 <=> Len(stdout) = 1

\* the HTML of the flag, the needle aarch64: the URL is printed, exit status 0
RuntimeUrlPrinted ==
    /\ Tried
    /\ html = HtmlFlag
    /\ home_url = Chars("https://example.org/")
    /\ needle_arch = Chars("aarch64")
    /\ stdout = <<Chars("https://example.org/dl/runtime-aarch64.tar.gz")>>
    /\ status = 0

(***************************************************************************)
(* C6: a flag takes priority over the environment variable, which takes    *)
(* priority over standard input.  As stated, for every flag value, the     *)
(* empty text included: refuted.  Amended: for every flag value that is    *)
(* not empty; a flag given with the empty text counts as not given, and    *)
(* the environment variable (for HTML then standard input) is used.        *)
(***************************************************************************)
\* C6 as stated: a flag that is given is the value used, whatever its value
GivenFlagUsed ==
    /\ (pc # "html" /\ html # None /\ args.html # None) => html = args.html
    /\ (home_url # None /\ args.home_url # None) => home_url = args.home_url
    /\ (needle_arch # None /\ args.needle_arch # None)
       => needle_arch = args.needle_arch

\* C6, amended: a flag given with a value that is not empty is the value used;
\* otherwise the environment variable is, and for HTML then standard input
NonEmptyFlagUsed ==
    /\ html # None =>
           /\ Truthy(args.html) => html = args.html
           /\ (~Truthy(args.html) /\ env.HTML # None) => html = env.HTML
           /\ (~Truthy(args.html) /\ env.HTML = None) => html = stdin.data
    /\ home_url # None =>
           /\ Truthy(args.home_url) => home_url = args.home_url
           /\ ~Truthy(args.home_url) => home_url = env.HOME_URL
    /\ needle_arch # None =>
           /\ Truthy(args.needle_arch) => needle_arch = args.needle_arch
           /\ ~Truthy(args.needle_arch) => needle_arch = env.NEEDLE_ARCH

\* flags and environment variables both set, the resolver run on the flags
FlagsUsedOverEnvironment ==
    /\ Tried
    /\ Truthy(env.HTML) /\ Truthy(env.HOME_URL) /\ Truthy(env.NEEDLE_ARCH)
    /\ ~stdin.isatty
    /\ html = HtmlFlag /\ html # env.HTML
    /\ home_url = args.home_url /\ home_url # env.HOME_URL
    /\ needle_arch = args.needle_arch /\ needle_arch # env.NEEDLE_ARCH

(***************************************************************************)
(* C7: a fault raised inside the resolver is reported by the diagnostic on *)
(* stderr, with exit status 1 and nothing on stdout; the resolver's own    *)
(* not-found exit passes through with its status 1 and no diagnostic.      *)
(***************************************************************************)
\* C7: a fault of the resolver (the ValueError of the join, or of decoding a
\* character reference) ends in the diagnostic and exit status 1, its
\* not-found exit in exit status 1 without the diagnostic
FaultReportedExitPassed ==
    Tried =>
        /\ result.kind = "raise" =>
               (stderr = <<Diagnostic>> /\ stdout = <<>> /\ status = 1)
        /\ result.kind = "exit" =>
               (stderr = <<>> /\ stdout = <<>> /\ status = result.code /\ status = 1)

\* the URL parser rejects the base URL: the diagnostic, exit status 1
JoinFaultReported ==
    /\ Tried
    /\ home_url = MalformedBase
    /\ QualifyingOfInput # {}
    /\ result = ValueError
    /\ stderr = <<Diagnostic>> /\ stdout = <<>> /\ status = 1

=============================================================================
